---------------------------- MODULE Spec2Model ----------------------------
(***************************************************************************)
(* Model of the duplicate-suppression ledgers, the wallet cache and the    *)
(* monitor loops of polymarket-insider.                                    *)
(*                                                                         *)
(* Each component has its own next-state relation and specification over   *)
(* the shared variable tuple; a component's actions leave the other        *)
(* components' variables unchanged.                                         *)
(*   SpecLarge    LargeTradeMonitor           (large_trade_monitor.py)    *)
(*   SpecService  TradeAnalysisService        (trade_analysis_service.py) *)
(*   SpecTradeMonitor  TradeMonitor polling with its SuspiciousTradeDetector *)
(*                and the HealthChecker clean-up (trade_monitor.py)        *)
(*   SpecEnhanced EnhancedTradeMonitor: the traditional and the subgraph   *)
(*                task sharing processed_trade_hashes and one              *)
(*                InsiderDetector with its wallet cache                    *)
(*                (enhanced_trade_monitor.py, insider_detector.py)         *)
(*   SpecWallet   the subgraph task alone with the clock of the wallet     *)
(*                cache advancing                                          *)
(*   SpecInsider  InsiderDetector: one call at a time of                   *)
(*                analyze_trade_for_insider_activity, and its pattern      *)
(*                detection and risk scoring applied to every input of     *)
(*                the bounded sets (insider_detector.py)                   *)
(*   SpecBreaker  api_circuit_breaker shared by two concurrent callers     *)
(*                (utils/retry.py)                                         *)
(*   SpecRetry    ConnectionManager.get_recent_trades behind the breaker   *)
(*                and retry_async, with its nested call of get_markets     *)
(*                (connection_manager.py, utils/retry.py)                  *)
(*   SpecApp      PolymarketInsiderApp.start and stop with the monitor     *)
(*                task of TradeMonitor (main.py, trade_monitor.py)         *)
(*   SpecKeys     one monitor at a time (LargeTradeMonitor,                *)
(*                EnhancedTradeMonitor or SuspiciousTradeDetector) fed     *)
(*                trade records with hash, maker and taker, with a         *)
(*                notifier that can fail                                   *)
(*   SpecRate     one coroutine decorated with rate_limit_async called by  *)
(*                two tasks (utils/retry.py)                               *)
(*   SpecStop     EnhancedTradeMonitor.stop cancelling the two monitor     *)
(*                tasks; SpecStopFair adds the fairness of the event loop  *)
(*   SpecMonitor  TradeMonitor._monitor_trades: WebSocket first, polling   *)
(*                as fallback; SpecMonitorFair adds the fairness of the    *)
(*                event loop                                               *)
(*   SpecHealth   HealthChecker._perform_health_check                      *)
(*   SpecDataApi  DataAPIClient.get_trader_info and its trader cache       *)
(*   SpecProcess  LargeTradeMonitor._process_trade with the inputs of its  *)
(*                filters                                                  *)
(*   SpecPatterns EnhancedTradeMonitor._analyze_suspicious_patterns over   *)
(*                the rounds of the subgraph loop                          *)
(***************************************************************************)
EXTENDS Integers, Sequences, FiniteSets, TLC

(***************************************************************************)
(* Bounds of the model.                                                  *)
(***************************************************************************)
\* distinct non-empty transaction hashes the upstream can return
NumHashes == 3
\* polling rounds of LargeTradeMonitor.start that are explored
MaxRounds == 3
\* trades in one poll response (limit=100 in the source)
BatchLimit == 2
\* ledger size above which a ledger is cleaned (10000 in the source,
\* large_trade_monitor.py:41, suspicious_trade_detector.py:229,
\* trade_analysis_service.py:19), scaled down
MaxProcessed == 2

\* clock of TradeAnalysisService, in days: it advances TickDays at a time
\* up to MaxDays
TickDays == 4
MaxDays == 12
\* trades submitted to TradeAnalysisService that are explored
MaxSubmits == 5
\* _cleanup_old_processed_trades: timedelta(days=7)
CleanupDays == 7

\* TradeMonitor._monitor_polling: timedelta(minutes=5)
WatermarkMinutes == 5

\* distinct wallet addresses
NumWallets == 1
\* distinct transaction hashes delivered to EnhancedTradeMonitor
NumEtmHashes == 2
\* largest number of activity records get_user_activity returns
MaxActivities == 1
\* clock of InsiderDetector, in minutes: it advances TickMinutes at a time
\* up to MaxMinutes
TickMinutes == 15
MaxMinutes == 45
\* _analyze_wallet_behavior: timedelta(minutes=30)
CacheTtlMinutes == 30

\* largest number of activity records in one wallet analysis of SpecInsider
MaxActs == 2
\* settings.min_trade_size_usd (default)
MinTradeSizeUsd == 10000
\* _analyze_wallet_behavior: timedelta(hours=24)
NewWalletHours == 24
\* self.large_trade_multiplier
LargeTradeMultiplier == 5
\* analyze_trade_for_insider_activity: minimum confidence threshold
MinConfidence == 30

\* clock of the circuit breaker, in seconds: it advances BreakerTick at a
\* time up to BreakerMaxNow
BreakerTick == 10
BreakerMaxNow == 50
\* steps of the monitor task of TradeMonitor that are explored
MaxMonitorSteps == 3
\* signals (SIGINT, SIGTERM) delivered to the application that are explored
MaxSignals == 2
\* counted WebSocket attempts, WebSocket messages and polling rounds of the
\* monitor task
MaxWsAttempts == 3
MaxMessages == 3
MaxPolls == 4
\* health checks that are explored
MaxHealthChecks == 5
\* trader addresses, and the clock of DataAPIClient in minutes: it advances
\* TraderTick at a time up to MaxTraderNow
NumTraders == 2
TraderTick == 10
MaxTraderNow == 40
\* transaction hashes handed to LargeTradeMonitor._process_trade
NumProcessHashes == 3
\* wallets and large trades per wallet in the responses of get_large_trades,
\* and rounds of the subgraph loop that are explored
NumPatternWallets == 1
NumLargeTrades == 3
MaxPatternRounds == 3
\* DataAPIClient._cache_ttl_minutes
TraderCacheTtlMinutes == 30
\* distinct transaction hashes of the records delivered in SpecKeys
NumKeyHashes == 3
\* distinct transaction hashes in a /trades response
NumRawHashes == 1
\* largest failure_count explored
MaxFailureCount == 4
\* rate_limit_async: min_interval = 1 / calls_per_second, in clock ticks; the
\* clock of the event loop advances one tick at a time up to MaxLoopTime
MinIntervalTicks == 2
MaxLoopTime == 7
\* calls of the rate-limited coroutine that are explored
MaxRateCalls == 3
\* api_circuit_breaker: failure_threshold=3, timeout=30
FailureThreshold == 3
\* retry_async(max_attempts=3) of get_recent_trades and get_markets
MaxAttempts == 3
BreakerTimeout == 30

Hashes == 1..NumHashes
Wallets == 1..NumWallets
EtmHashes == 1..NumEtmHashes
\* the transactionHash of a trade record; NoHash is the missing/empty hash
NoHash == 0
TxValues == Hashes \cup {NoHash}

\* poll responses: every sequence of at most BatchLimit trades
Batches == UNION {[1..n -> TxValues] : n \in 0..BatchLimit}

VARIABLES
    \* ---- LargeTradeMonitor
    processed_tx_hashes,  \* self.processed_tx_hashes
    ltm_pc,               \* position of start(): "sleep" or "round"
    ltm_trades,           \* trades of the current round not yet processed
    ltm_rounds,           \* polling rounds started
    ltm_sends,            \* send_message invocations per hash, ever
    ltm_evals,            \* per hash: evaluations (past the dedup check) since the last clear
    ltm_sends_epoch,      \* per hash: send_message invocations since the last clear
    ltm_failed,           \* hashes whose evaluation raised since the last clear
    ltm_dropped,          \* hashes dropped at the dedup check since the last clear
    ltm_clears,           \* times start() has cleared the ledger
    \* ---- TradeAnalysisService
    tas_processed,        \* self._processed_trades: hash -> insertion day, Absent if no entry
    tas_now,              \* datetime.now(), in days
    tas_order,            \* the distinct hashes marked, in order of their first marking
    tas_last_marked,      \* hash marked by the last call, NoHash if the last call marked none
    tas_evals,            \* per hash: runs of process_trade_analysis
    tas_removed,          \* hashes whose entry a cleanup has removed
    tas_submits,          \* trades submitted
    \* ---- TradeMonitor, its SuspiciousTradeDetector and HealthChecker
    std_processed,        \* detector.processed_trades
    tm_pc,                \* position of _monitor_polling: "sleep" or "batch"
    tm_new_trades,        \* new_trades of the current round not yet analysed
    tm_now,               \* datetime.now(), in minutes
    tm_last_check,        \* last_check_time
    tm_rounds,            \* polls made
    tm_analysed,          \* trades of the current/last round handed to _analyze_trade
    tm_skipped,           \* new trades of the last round never handed to _analyze_trade
    sp,                   \* EnhancedTradeMonitor._analyze_suspicious_patterns: rounds
                          \* made, the last response and the enhanced alerts sent, each
                          \* with the round that sent it
    lt,                   \* LargeTradeMonitor._process_trade: processed_tx_hashes and
                          \* the inputs and the result of the last call
    dac,                  \* DataAPIClient: the clock, _trader_cache, _last_cache_update,
                          \* and the history of the fetches and of the last call
    hc,                   \* HealthChecker: the position of _perform_health_check, the
                          \* state of the API and the results of the last checks
    mon,                  \* TradeMonitor._monitor_trades: running, the position of the
                          \* monitor task and counts of what it has done
    tm_poll,              \* history: trades handed to _analyze_trade so far, and the
                          \* trades of the last response dropped by the watermark filter
    \* ---- EnhancedTradeMonitor and its InsiderDetector
    processed_trade_hashes, \* self.processed_trade_hashes
    esd_processed,        \* suspicious_detector.processed_trades
    wallet_cache,         \* insider_detector.wallet_cache: wallet -> profile, NoProfile if no entry
    wd_now,               \* datetime.now(), in minutes
    etm_pc,               \* per task: the await it is suspended in, "idle" between trades
    etm_cur,              \* per task: the trade under evaluation
    etm_lk,               \* per task: its current/last call of _analyze_wallet_behavior
    etm_out,              \* per task: result of its last analyze_trade_for_insider_activity
    etm_evals,            \* per hash: evaluations past the dedup check
    etm_dropped,          \* hashes dropped at the dedup check
    \* ---- InsiderDetector: one call of analyze_trade_for_insider_activity
    ia_pc,                \* "idle", "market" (suspended in _get_market_context), "done", "applied"
    ia_trade,             \* trade_data
    ia_activities,        \* what get_user_activity returned
    ia_positions,         \* number of records get_user_positions returned
    ia_wallet,            \* wallet_analysis, NoAnalysis for None
    ia_market,            \* outcome of _get_market_context: "unset", "no_market", "failed", "ok"
    ia_context,           \* market_context
    ia_detect,            \* outcome of _detect_insider_patterns: [raised, patterns]
    ia_risk,              \* outcome of _calculate_risk_score
    ia_result,            \* what the call returned: "none", "alert"; "pending" before
    \* ---- api_circuit_breaker and the calls through it
    api_circuit_breaker,  \* [state, failure_count, last_failure_time]
    cb_now,               \* datetime.now(), in seconds
    cb_pc,                \* per caller: "idle" or "call" (suspended in await func(...))
    cb_probe,             \* per caller: its call moved the breaker from OPEN to HALF_OPEN
    cb_result,            \* per caller: how its last call ended
    cb_streak,            \* expected failures completed since the last success
    \* ---- one caller of ConnectionManager.get_recent_trades
    rt_pc,                \* "idle", "trades" (GET /trades pending), "markets" (GET /markets pending)
    rt_attempt,           \* attempt of retry_async around get_recent_trades
    rt_inner,             \* attempt of retry_async around get_markets
    rt_requests,          \* HTTP requests sent by the current/last call, per endpoint
    rt_raw,               \* trades_data of the last /trades response
    rt_result,            \* how the last call ended
    rt_trades,            \* the list the last call returned
    \* ---- PolymarketInsiderApp
    app_pc,               \* position of start(): the await it is suspended in, or how it ended
    app_running,          \* self.running
    app_components,       \* the component attributes that are set
    app_stop,             \* position of the stop() that passed the running test
    app_cleaned,          \* components whose stop/cleanup has been awaited
    app_task,             \* trade_monitor._monitor_task: "none", "created", "running", "cancelled"
    app_steps,            \* steps the monitor task has taken
    app_signals,          \* signals (SIGINT, SIGTERM) handled
    app_cause,            \* what made stop() run its body: "none", "signal", "error", "return"
    \* ---- one monitor with its dedup ledger and notifier
    dk_monitor,           \* the monitor under observation, "none" before the first record
    dk_ledger,            \* its set of processed keys
    dk_delivered,         \* (hash, maker, taker) of the records delivered since the last clear
    dk_last,              \* the last record delivered and what became of it
    dk_failed,            \* keys for which send_message has failed
    dk_resent,            \* send_message was invoked for a key after it had failed for that key
    dk_cleared,           \* the ledger has been cleared
    \* ---- one coroutine decorated with rate_limit_async
    rl_now,               \* asyncio.get_event_loop().time(), in ticks
    last_called,          \* last_called[0]
    rl_pc,                \* per caller: "idle" or "sleep" (in asyncio.sleep(sleep_time))
    rl_wake,              \* per caller: when its sleep is due
    rl_starts,            \* times at which func was invoked, in order
    \* ---- EnhancedTradeMonitor.stop and the two monitor tasks
    st_running,           \* self.running
    st_pc,                \* per task: the await it is suspended in, or how it ended
    st_attempt,           \* per task: attempt of retry_async around its fetch
    st_cancel,            \* per task: cancel() was called and CancelledError is not yet thrown
    st_cancelled_at,      \* per task: where it was suspended when cancel() was called
    st_after,             \* per task: attempts started and trades analysed after cancel()
    st_stop               \* position of stop()

ltm_vars == <<processed_tx_hashes, ltm_pc, ltm_trades, ltm_rounds, ltm_sends,
              ltm_evals, ltm_sends_epoch, ltm_failed, ltm_dropped, ltm_clears>>

tas_vars == <<tas_processed, tas_now, tas_order, tas_last_marked, tas_evals,
              tas_removed, tas_submits>>

tm_vars == <<std_processed, tm_pc, tm_new_trades, tm_now, tm_last_check,
             tm_rounds, tm_analysed, tm_skipped, tm_poll>>

etm_vars == <<processed_trade_hashes, esd_processed, wallet_cache, wd_now,
              etm_pc, etm_cur, etm_lk, etm_out, etm_evals, etm_dropped>>

ia_vars == <<ia_pc, ia_trade, ia_activities, ia_positions, ia_wallet, ia_market,
             ia_context, ia_detect, ia_risk, ia_result>>

cb_vars == <<api_circuit_breaker, cb_now, cb_pc, cb_probe, cb_result, cb_streak>>

rt_vars == <<rt_pc, rt_attempt, rt_inner, rt_requests, rt_raw, rt_result, rt_trades>>

st_vars == <<st_running, st_pc, st_attempt, st_cancel, st_cancelled_at, st_after, st_stop>>

rl_vars == <<rl_now, last_called, rl_pc, rl_wake, rl_starts>>

dk_vars == <<dk_monitor, dk_ledger, dk_delivered, dk_last, dk_failed, dk_resent, dk_cleared>>

app_vars == <<app_pc, app_running, app_components, app_stop, app_cleaned, app_task,
              app_steps, app_signals, app_cause>>

\* the monitors and detectors
core_vars == <<ltm_vars, tas_vars, tm_vars, etm_vars, ia_vars>>
\* the retry utilities and what is built on them
util_vars == <<cb_vars, rt_vars, st_vars, rl_vars, dk_vars, app_vars, mon, hc, dac, lt, sp>>
not_sp == <<core_vars, cb_vars, rt_vars, st_vars, rl_vars, dk_vars, app_vars, mon, hc, dac, lt>>
not_lt == <<core_vars, cb_vars, rt_vars, st_vars, rl_vars, dk_vars, app_vars, mon, hc, dac, sp>>
not_dac == <<core_vars, cb_vars, rt_vars, st_vars, rl_vars, dk_vars, app_vars, mon, hc, lt, sp>>
not_mon == <<core_vars, cb_vars, rt_vars, st_vars, rl_vars, dk_vars, app_vars, hc, dac, lt, sp>>
\* _cleanup_old_trades clears the ledger of the detector
not_hc == <<ltm_vars, tas_vars, tm_pc, tm_new_trades, tm_now, tm_last_check, tm_rounds,
            tm_analysed, tm_skipped, tm_poll, etm_vars, ia_vars,
            cb_vars, rt_vars, st_vars, rl_vars, dk_vars, app_vars, mon, dac, lt, sp>>

vars == <<core_vars, util_vars>>

\* the variables of the other components
not_ltm == <<tas_vars, tm_vars, etm_vars, ia_vars, util_vars>>
not_tas == <<ltm_vars, tm_vars, etm_vars, ia_vars, util_vars>>
not_tm == <<ltm_vars, tas_vars, etm_vars, ia_vars, util_vars>>
not_etm == <<ltm_vars, tas_vars, tm_vars, ia_vars, util_vars>>
not_ia == <<ltm_vars, tas_vars, tm_vars, etm_vars, util_vars>>
not_cb == <<core_vars, rt_vars, st_vars, rl_vars, dk_vars, app_vars, mon, hc, dac, lt, sp>>
not_rt == <<core_vars, cb_pc, cb_probe, cb_result, cb_streak, st_vars, rl_vars, dk_vars, app_vars, mon, hc, dac, lt, sp>>
not_st == <<core_vars, cb_vars, rt_vars, rl_vars, dk_vars, app_vars, mon, hc, dac, lt, sp>>
not_app == <<core_vars, cb_vars, rt_vars, st_vars, rl_vars, dk_vars, mon, hc, dac, lt, sp>>
not_dk == <<core_vars, cb_vars, rt_vars, st_vars, rl_vars, app_vars, mon, hc, dac, lt, sp>>
not_rl == <<core_vars, cb_vars, rt_vars, st_vars, dk_vars, app_vars, mon, hc, dac, lt, sp>>

Zero == [h \in Hashes |-> 0]

(***************************************************************************)
(* Dedup ledger held as a set (LargeTradeMonitor, SuspiciousTradeDetector, *)
(* EnhancedTradeMonitor).                                                  *)
(***************************************************************************)
\* a ledger check that never finds a key
SeenNever(ledger, key) == FALSE

\* `key in ledger`
Seen(ledger, key) == key \in ledger

\* an insertion that is lost
MarkSeenLost(ledger, key) == ledger

\* `ledger.add(key)`
MarkSeen(ledger, key) == ledger \cup {key}

\* `if len(ledger) > max: ledger.clear()`
ClearIfOversize(ledger, max) ==
    IF Cardinality(ledger) > max THEN {} ELSE ledger

(***************************************************************************)
(* LargeTradeMonitor                                                       *)
(***************************************************************************)
InitLarge ==
    /\ processed_tx_hashes = {}
    /\ ltm_pc = "sleep"
    /\ ltm_trades = <<>>
    /\ ltm_rounds = 0
    /\ ltm_sends = Zero
    /\ ltm_evals = Zero
    /\ ltm_sends_epoch = Zero
    /\ ltm_failed = {}
    /\ ltm_dropped = {}
    /\ ltm_clears = 0

\* _check_for_large_trades: the fetch. A failed fetch is caught there and
\* leaves nothing to process, like an empty response.
LTM_Fetch ==
    /\ UNCHANGED not_ltm
    /\ ltm_pc = "sleep"
    /\ ltm_rounds < MaxRounds
    /\ \E batch \in Batches : ltm_trades' = batch
    /\ ltm_pc' = "round"
    /\ ltm_rounds' = ltm_rounds + 1
    /\ UNCHANGED <<processed_tx_hashes, ltm_sends, ltm_evals, ltm_sends_epoch,
                   ltm_failed, ltm_dropped, ltm_clears>>

\* _process_trade on a record without transactionHash: return
LTM_ProcessNoHash ==
    /\ UNCHANGED not_ltm
    /\ ltm_pc = "round"
    /\ ltm_trades # <<>>
    /\ Head(ltm_trades) = NoHash
    /\ ltm_trades' = Tail(ltm_trades)
    /\ UNCHANGED <<processed_tx_hashes, ltm_pc, ltm_rounds, ltm_sends, ltm_evals,
                   ltm_sends_epoch, ltm_failed, ltm_dropped, ltm_clears>>

\* _process_trade on an already processed hash: return
LTM_ProcessDuplicate ==
    /\ UNCHANGED not_ltm
    /\ ltm_pc = "round"
    /\ ltm_trades # <<>>
    /\ Head(ltm_trades) # NoHash
    /\ Seen(processed_tx_hashes, Head(ltm_trades))
    /\ ltm_trades' = Tail(ltm_trades)
    /\ ltm_dropped' = ltm_dropped \cup {Head(ltm_trades)}
    /\ UNCHANGED <<processed_tx_hashes, ltm_pc, ltm_rounds, ltm_sends, ltm_evals,
                   ltm_sends_epoch, ltm_failed, ltm_clears>>

\* _process_trade on a new hash: mark, enrich, filter, _send_alert.
\* outcome "raise": enrich_trade_data, get_trader_info, get_trader_summary,
\*   get_market_by_token or the formatting before send_message raised;
\* outcome "filtered": an "Up or Down" market or a taker with >= 5 markets;
\* outcome "send": telegram_bot.send_message is invoked.
LTM_ProcessNew ==
    /\ UNCHANGED not_ltm
    /\ ltm_pc = "round"
    /\ ltm_trades # <<>>
    /\ Head(ltm_trades) # NoHash
    /\ ~Seen(processed_tx_hashes, Head(ltm_trades))
    /\ LET h == Head(ltm_trades) IN
        /\ processed_tx_hashes' = MarkSeen(processed_tx_hashes, h)
        /\ ltm_evals' = [ltm_evals EXCEPT ![h] = @ + 1]
        /\ \E outcome \in {"raise", "filtered", "send"} :
              /\ ltm_sends' = IF outcome = "send"
                              THEN [ltm_sends EXCEPT ![h] = @ + 1] ELSE ltm_sends
              /\ ltm_sends_epoch' = IF outcome = "send"
                                    THEN [ltm_sends_epoch EXCEPT ![h] = @ + 1]
                                    ELSE ltm_sends_epoch
              /\ ltm_failed' = IF outcome = "raise"
                               THEN ltm_failed \cup {h} ELSE ltm_failed
    /\ ltm_trades' = Tail(ltm_trades)
    /\ UNCHANGED <<ltm_pc, ltm_rounds, ltm_dropped, ltm_clears>>

\* start(): after _check_for_large_trades, clear the ledger if it holds more
\* than 10000 hashes, then sleep
LTM_EndRound ==
    /\ UNCHANGED not_ltm
    /\ ltm_pc = "round"
    /\ ltm_trades = <<>>
    /\ processed_tx_hashes' = ClearIfOversize(processed_tx_hashes, MaxProcessed)
    /\ IF processed_tx_hashes' = {} /\ processed_tx_hashes # {}
       THEN /\ ltm_evals' = Zero
            /\ ltm_sends_epoch' = Zero
            /\ ltm_failed' = {}
            /\ ltm_dropped' = {}
            /\ ltm_clears' = ltm_clears + 1
       ELSE UNCHANGED <<ltm_evals, ltm_sends_epoch, ltm_failed, ltm_dropped, ltm_clears>>
    /\ ltm_pc' = "sleep"
    /\ UNCHANGED <<ltm_trades, ltm_rounds, ltm_sends>>

NextLarge ==
    \/ LTM_Fetch
    \/ LTM_ProcessNoHash
    \/ LTM_ProcessDuplicate
    \/ LTM_ProcessNew
    \/ LTM_EndRound

(***************************************************************************)
(* TradeAnalysisService                                                    *)
(*                                                                         *)
(* The module imports SuspiciousTradeAlert from api.models, which does not *)
(* define it, and nothing in the repository calls the service; it is       *)
(* modelled as its methods are written.                                    *)
(***************************************************************************)
Absent == -1

InitService ==
    /\ tas_processed = [h \in Hashes |-> Absent]
    /\ tas_now = 0
    /\ tas_order = <<>>
    /\ tas_last_marked = NoHash
    /\ tas_evals = Zero
    /\ tas_removed = {}
    /\ tas_submits = 0

\* keys of the dict
TasKeys(processed) == {h \in Hashes : processed[h] # Absent}

\* is_trade_processed
IsTradeProcessed(processed, h) == processed[h] # Absent

\* _cleanup_old_processed_trades: delete the entries older than 7 days
CleanupOldProcessedTrades(processed, now) ==
    [h \in Hashes |->
        IF processed[h] # Absent /\ processed[h] < now - CleanupDays
        THEN Absent ELSE processed[h]]

\* mark_trade_processed
MarkTradeProcessed(processed, h, now) ==
    LET marked == [processed EXCEPT ![h] = now] IN
    IF Cardinality(TasKeys(marked)) > MaxProcessed
    THEN CleanupOldProcessedTrades(marked, now)
    ELSE marked

\* the analysis context of prepare_wallet_analysis_context, reduced to what
\* the score and the alert decision read. big_trade: usd_size >= 5 x minimum;
\* first_within_hour: hours_since_first_trade < 1; last_over_week:
\* hours_since_last_trade > 168; multi_funding: recent_funding_count > 1
Contexts ==
    {c \in [is_new_wallet : BOOLEAN, has_recent_funding : BOOLEAN,
             funding_matches_trade : BOOLEAN, is_low_activity : BOOLEAN,
             first_within_hour : BOOLEAN, last_over_week : BOOLEAN,
             multi_funding : BOOLEAN, big_trade : BOOLEAN] :
        /\ c.funding_matches_trade => c.has_recent_funding
        /\ c.multi_funding => c.has_recent_funding
        /\ c.first_within_hour => c.is_new_wallet
        /\ c.first_within_hour => ~c.last_over_week}

Min(a, b) == IF a < b THEN a ELSE b

\* calculate_confidence_score
CalculateConfidenceScore(c) ==
    Min((IF c.is_new_wallet THEN 40 ELSE 0)
        + (IF c.has_recent_funding
           THEN 25 + (IF c.funding_matches_trade THEN 20 ELSE 0) ELSE 0)
        + (IF c.is_low_activity THEN 15 ELSE 0)
        + (IF c.first_within_hour THEN 15 ELSE 0)
        + (IF c.last_over_week THEN 10 ELSE 0)
        + (IF c.multi_funding THEN 10 ELSE 0), 100)

\* should_send_alert
ShouldSendAlert(c) ==
    LET confidence == CalculateConfidenceScore(c) IN
    IF confidence >= 70 THEN TRUE
    ELSE IF c.big_trade THEN confidence >= 50
    ELSE IF c.funding_matches_trade /\ c.is_new_wallet THEN confidence >= 60
    ELSE FALSE

\* should_analyze_trade; too_small: usd_size below the minimum; too_old:
\* the trade is older than 24 hours
ShouldAnalyzeTrade(processed, h, too_small, too_old) ==
    /\ ~IsTradeProcessed(processed, h)
    /\ ~too_small
    /\ ~too_old

\* a trade that should_analyze_trade rejects
TAS_Skip ==
    /\ UNCHANGED not_tas
    /\ tas_submits < MaxSubmits
    /\ \E h \in Hashes, too_small \in BOOLEAN, too_old \in BOOLEAN :
          ~ShouldAnalyzeTrade(tas_processed, h, too_small, too_old)
    /\ tas_submits' = tas_submits + 1
    /\ tas_last_marked' = NoHash
    /\ UNCHANGED <<tas_processed, tas_now, tas_order, tas_evals, tas_removed>>

\* a trade that should_analyze_trade accepts: process_trade_analysis on its
\* context, which marks the trade only after an alert has been built
TAS_ProcessTradeAnalysis ==
    /\ UNCHANGED not_tas
    /\ tas_submits < MaxSubmits
    /\ \E h \in Hashes, alert \in {ShouldSendAlert(c) : c \in Contexts} :
          /\ ShouldAnalyzeTrade(tas_processed, h, FALSE, FALSE)
          /\ tas_evals' = [tas_evals EXCEPT ![h] = @ + 1]
          /\ IF alert
             THEN LET after == MarkTradeProcessed(tas_processed, h, tas_now) IN
                  /\ tas_processed' = after
                  /\ tas_last_marked' = h
                  /\ tas_order' = IF \E i \in 1..Len(tas_order) : tas_order[i] = h
                                  THEN tas_order ELSE Append(tas_order, h)
                  /\ tas_removed' = tas_removed \cup
                                      ((TasKeys(tas_processed) \cup {h}) \ TasKeys(after))
             ELSE /\ tas_last_marked' = NoHash
                  /\ UNCHANGED <<tas_processed, tas_order, tas_removed>>
    /\ tas_submits' = tas_submits + 1
    /\ UNCHANGED tas_now

\* time passes
TAS_Tick ==
    /\ UNCHANGED not_tas
    /\ tas_now + TickDays <= MaxDays
    /\ tas_now' = tas_now + TickDays
    /\ tas_last_marked' = NoHash
    /\ UNCHANGED <<tas_processed, tas_order, tas_evals, tas_removed, tas_submits>>

NextService ==
    \/ TAS_Skip
    \/ TAS_ProcessTradeAnalysis
    \/ TAS_Tick

(***************************************************************************)
(* SuspiciousTradeDetector                                                 *)
(***************************************************************************)
\* analyze_trade after the dedup check: whether an alert is returned.
\* large: usd_size is set and >= min_trade_size (check 1 then always
\* alerts); recent_funding: _get_recent_funding finds a funding event;
\* pattern: the confidence tests of checks 2 and 3 pass
SuspiciousAlert(large, recent_funding, pattern) ==
    large \/ (recent_funding /\ pattern)

(***************************************************************************)
(* TradeMonitor                                                            *)
(***************************************************************************)
\* the trades one poll can return at time `now` with watermark `last`: a
\* trade is no newer than the watermark or as new as the poll; usd_zero:
\* usd_size is 0 or None. Maker and taker are fixed per hash.
TmTrades(now, last) ==
    [hash : Hashes, ts : {last, now}, usd_zero : BOOLEAN]

TmBatches(now, last) ==
    UNION {[1..n -> TmTrades(now, last)] : n \in 0..BatchLimit}

InitTradeMonitor ==
    /\ std_processed = {}
    /\ tm_pc = "sleep"
    /\ tm_new_trades = <<>>
    /\ tm_now = WatermarkMinutes
    /\ tm_last_check = 0
    /\ tm_rounds = 0
    /\ tm_analysed = 0
    /\ tm_skipped = 0
    /\ tm_poll = [analysed |-> {}, dropped |-> {}]

\* the filter of _monitor_polling: trade.timestamp > last_check_time
NewTrades(trades, last) ==
    SelectSeq(trades, LAMBDA t : t.ts > last)

\* a trade as a pair of its hash and its timestamp
TradeOf(t) == <<t.hash, t.ts>>
\* the trades of a response that the filter drops although their timestamp
\* is later than the initial watermark (0, the value of InitTradeMonitor)
DroppedTrades(trades, last) ==
    {TradeOf(trades[i]) : i \in {j \in DOMAIN trades :
                                    trades[j].ts <= last /\ trades[j].ts > 0}}

\* _monitor_polling: get_recent_trades raises; the handler sleeps twice the
\* polling interval
TM_FetchFails ==
    /\ UNCHANGED not_tm
    /\ tm_pc = "sleep"
    /\ tm_rounds < MaxRounds
    /\ tm_rounds' = tm_rounds + 1
    /\ tm_now' = tm_now + 2
    /\ tm_analysed' = 0
    /\ tm_skipped' = 0
    /\ UNCHANGED <<std_processed, tm_pc, tm_new_trades, tm_last_check, tm_poll>>

\* _monitor_polling: a poll response; without new trades the watermark is
\* advanced and the loop sleeps one polling interval
TM_Fetch ==
    /\ UNCHANGED not_tm
    /\ tm_pc = "sleep"
    /\ tm_rounds < MaxRounds
    /\ tm_rounds' = tm_rounds + 1
    /\ tm_analysed' = 0
    /\ tm_skipped' = 0
    /\ \E trades \in TmBatches(tm_now, tm_last_check) :
          LET new_trades == NewTrades(trades, tm_last_check) IN
          /\ tm_poll' = [tm_poll EXCEPT !.dropped = DroppedTrades(trades, tm_last_check)]
          /\ IF new_trades = <<>>
             THEN /\ tm_last_check' = tm_now
                  /\ tm_now' = tm_now + 1
                  /\ UNCHANGED <<tm_pc, tm_new_trades>>
             ELSE /\ tm_new_trades' = new_trades
                  /\ tm_pc' = "batch"
                  /\ UNCHANGED <<tm_now, tm_last_check>>
    /\ UNCHANGED std_processed

\* what _monitor_polling does when _analyze_trade raises: the rest of the
\* batch is abandoned, the watermark is not advanced, sleep twice the interval
TmAbortRound ==
    /\ tm_skipped' = Len(tm_new_trades) - 1
    /\ tm_new_trades' = <<>>
    /\ tm_pc' = "sleep"
    /\ tm_now' = tm_now + 2
    /\ tm_poll' = [tm_poll EXCEPT !.analysed = @ \cup {TradeOf(Head(tm_new_trades))}]
    /\ UNCHANGED tm_last_check

\* _analyze_trade raises TradeProcessingError: reading
\* self.detector.min_trade_size_usd (SuspiciousTradeDetector has no such
\* attribute) for a trade with a nonzero usd_size, or get_wallet_trade_history
\* failing
TM_AnalyzeRaises ==
    /\ UNCHANGED not_tm
    /\ tm_pc = "batch"
    /\ tm_new_trades # <<>>
    /\ \E history_fails \in BOOLEAN :
          ~Head(tm_new_trades).usd_zero \/ history_fails
    /\ tm_analysed' = tm_analysed + 1
    /\ TmAbortRound
    /\ UNCHANGED <<std_processed, tm_rounds>>

\* _analyze_trade returns: the funding history is always empty
\* (get_wallet_funding_history returns []) and usd_size is zero here, so
\* detector.analyze_trade marks the trade and returns no alert
TM_AnalyzeTrade ==
    /\ UNCHANGED not_tm
    /\ tm_pc = "batch"
    /\ tm_new_trades # <<>>
    /\ Head(tm_new_trades).usd_zero
    /\ LET key == Head(tm_new_trades).hash IN
          /\ std_processed' = IF Seen(std_processed, key) THEN std_processed
                               ELSE MarkSeen(std_processed, key)
          /\ ~SuspiciousAlert(FALSE, FALSE, TRUE)
    /\ tm_analysed' = tm_analysed + 1
    /\ tm_new_trades' = Tail(tm_new_trades)
    /\ tm_poll' = [tm_poll EXCEPT !.analysed = @ \cup {TradeOf(Head(tm_new_trades))}]
    /\ UNCHANGED <<tm_pc, tm_now, tm_last_check, tm_rounds, tm_skipped>>

\* _monitor_polling after the batch: advance the watermark and sleep
TM_EndRound ==
    /\ UNCHANGED not_tm
    /\ tm_pc = "batch"
    /\ tm_new_trades = <<>>
    /\ tm_last_check' = tm_now
    /\ tm_now' = tm_now + 1
    /\ tm_pc' = "sleep"
    /\ UNCHANGED <<std_processed, tm_new_trades, tm_rounds, tm_analysed, tm_skipped,
                   tm_poll>>

\* HealthChecker._cleanup_old_trades: detector.clear_processed_trades()
HC_CleanupOldTrades ==
    /\ UNCHANGED not_tm
    /\ std_processed' = ClearIfOversize(std_processed, MaxProcessed)
    /\ std_processed' # std_processed
    /\ UNCHANGED <<tm_pc, tm_new_trades, tm_now, tm_last_check, tm_rounds,
                   tm_analysed, tm_skipped, tm_poll>>

NextTradeMonitor ==
    \/ TM_FetchFails
    \/ TM_Fetch
    \/ TM_AnalyzeRaises
    \/ TM_AnalyzeTrade
    \/ TM_EndRound
    \/ HC_CleanupOldTrades

(***************************************************************************)
(* InsiderDetector: the wallet cache                                       *)
(***************************************************************************)
\* `None` returned by _analyze_wallet_behavior; also an absent cache entry
NoProfile == [wallet |-> 0, total_activities |-> 0, total_positions |-> 0,
              cache_time |-> 0]

\* a profile test that accepts None
HasProfileAlways(p) == TRUE

\* analyze_trade_for_insider_activity: the test `if not wallet_analysis`
HasProfile(p) == p # NoProfile

\* a cache check that never hits
CacheValidNever(cache, w, now) == FALSE

\* _analyze_wallet_behavior, the cache check: an entry whose cache_time is
\* less than 30 minutes old
CacheValid(cache, w, now) ==
    /\ cache[w] # NoProfile
    /\ now - cache[w].cache_time < CacheTtlMinutes

\* a failure handler that falls back to the entry found at the cache check
OnLookupFailureStale(prior) == prior

\* _analyze_wallet_behavior, `except Exception: return None`
OnLookupFailure(prior) == NoProfile

\* the analysis dict built from the fetched activities and positions,
\* reduced to its counts and cache_time
BuildProfile(w, activities, positions, now) ==
    [wallet |-> w, total_activities |-> activities,
     total_positions |-> positions, cache_time |-> now]

\* what get_user_activity returns: the number of records
ActivityCounts == 0..MaxActivities
\* get_user_positions: no position (0) or some (1)
PositionCounts == 0..1

\* a call of _analyze_wallet_behavior: wallet, time of the cache check, cache
\* entry found at the check, calls of get_user_activity made, activities
\* fetched (while the call is suspended), value returned
NoLookup == [wallet |-> 0, start |-> 0, prior |-> NoProfile, fetches |-> 0,
             activities |-> 0, result |-> NoProfile, done |-> FALSE]

(***************************************************************************)
(* EnhancedTradeMonitor                                                    *)
(***************************************************************************)
\* _monitor_traditional and _monitor_subgraph, created by start()
Tasks == {"trad", "sub"}

\* a trade: large iff its USD size reaches settings.min_trade_size_usd
NoTrade == [hash |-> NoHash, maker |-> 0, large |-> FALSE]
TradTrades == [hash : EtmHashes, maker : Wallets, large : BOOLEAN]
SubTrades == [hash : EtmHashes \cup {NoHash}, maker : Wallets, large : BOOLEAN]

InitEnhanced ==
    /\ processed_trade_hashes = {}
    /\ esd_processed = {}
    /\ wallet_cache = [w \in Wallets |-> NoProfile]
    /\ wd_now = 0
    /\ etm_pc = [t \in Tasks |-> "idle"]
    /\ etm_cur = [t \in Tasks |-> NoTrade]
    /\ etm_lk = [t \in Tasks |-> NoLookup]
    /\ etm_out = [t \in Tasks |-> "not_run"]
    /\ etm_evals = [h \in EtmHashes |-> 0]
    /\ etm_dropped = {}

\* analyze_trade_for_insider_activity once the profile is known, up to its
\* next await: no profile or a trade below the minimum size ends it with
\* None, otherwise _get_market_context is awaited
AfterProfile(p, trade) ==
    IF ~HasProfile(p) THEN [pc |-> "idle", out |-> "none"]
    ELSE IF ~trade.large THEN [pc |-> "idle", out |-> "none"]
    ELSE [pc |-> "market", out |-> "pending"]

\* analyze_trade_for_insider_activity from its entry up to its first await:
\* the cache check of _analyze_wallet_behavior; on a miss get_user_activity
\* is awaited
AnalyzeEntry(cache, now, trade) ==
    LET w == trade.maker IN
    IF CacheValid(cache, w, now)
    THEN [lk |-> [wallet |-> w, start |-> now, prior |-> cache[w],
                  fetches |-> 0, activities |-> 0, result |-> cache[w],
                  done |-> TRUE],
          pc |-> AfterProfile(cache[w], trade).pc,
          out |-> AfterProfile(cache[w], trade).out]
    ELSE [lk |-> [wallet |-> w, start |-> now, prior |-> cache[w],
                  fetches |-> 1, activities |-> 0, result |-> NoProfile,
                  done |-> FALSE],
          pc |-> "activity",
          out |-> "pending"]

\* _monitor_polling hands a trade to _analyze_trade: dedup check and mark;
\* get_wallet_funding_history returns [] without suspending, then
\* get_wallet_trade_history is awaited
ETM_ReceiveTraditional ==
    /\ UNCHANGED not_etm
    /\ etm_pc["trad"] = "idle"
    /\ \E h \in EtmHashes :
          IF Seen(processed_trade_hashes, h)
          THEN /\ etm_dropped' = etm_dropped \cup {h}
               /\ UNCHANGED <<processed_trade_hashes, etm_pc, etm_cur, etm_lk,
                              etm_out, etm_evals>>
          ELSE \E trade \in {tr \in TradTrades : tr.hash = h} :
               /\ processed_trade_hashes' = MarkSeen(processed_trade_hashes, h)
               /\ etm_evals' = [etm_evals EXCEPT ![h] = @ + 1]
               /\ etm_cur' = [etm_cur EXCEPT !["trad"] = trade]
               /\ etm_pc' = [etm_pc EXCEPT !["trad"] = "history"]
               /\ etm_lk' = [etm_lk EXCEPT !["trad"] = NoLookup]
               /\ etm_out' = [etm_out EXCEPT !["trad"] = "not_run"]
               /\ UNCHANGED etm_dropped
    /\ UNCHANGED <<esd_processed, wallet_cache, wd_now>>

\* _analyze_trade resumes from get_wallet_trade_history. If the fetch raised,
\* or if suspicious_detector.analyze_trade returns an alert (a large trade:
\* telegram_bot.send_alert does not exist and raises AttributeError), the
\* handler of _analyze_trade logs and the evaluation is over; otherwise
\* _analyze_trade_with_subgraph runs up to its first await
ETM_History ==
    /\ UNCHANGED not_etm
    /\ etm_pc["trad"] = "history"
    /\ LET trade == etm_cur["trad"]
           key == <<trade.hash, trade.maker>>
           entry == AnalyzeEntry(wallet_cache, wd_now, trade)
       IN \E history_fails \in BOOLEAN :
          IF history_fails
          THEN /\ etm_pc' = [etm_pc EXCEPT !["trad"] = "idle"]
               /\ etm_cur' = [etm_cur EXCEPT !["trad"] = NoTrade]
               /\ UNCHANGED <<esd_processed, etm_lk, etm_out>>
          ELSE /\ esd_processed' = IF Seen(esd_processed, key) THEN esd_processed
                                    ELSE MarkSeen(esd_processed, key)
               /\ IF ~Seen(esd_processed, key) /\ SuspiciousAlert(trade.large, FALSE, TRUE)
                  THEN /\ etm_pc' = [etm_pc EXCEPT !["trad"] = "idle"]
                       /\ etm_cur' = [etm_cur EXCEPT !["trad"] = NoTrade]
                       /\ UNCHANGED <<etm_lk, etm_out>>
                  ELSE /\ etm_lk' = [etm_lk EXCEPT !["trad"] = entry.lk]
                       /\ etm_pc' = [etm_pc EXCEPT !["trad"] = entry.pc]
                       /\ etm_out' = [etm_out EXCEPT !["trad"] = entry.out]
                       /\ etm_cur' = [etm_cur EXCEPT !["trad"] =
                                        IF entry.pc = "idle" THEN NoTrade ELSE trade]
    /\ UNCHANGED <<processed_trade_hashes, wallet_cache, wd_now, etm_evals,
                   etm_dropped>>

\* _monitor_subgraph hands a trade to _analyze_subgraph_trade: an empty or
\* already processed hash returns; otherwise mark and run
\* analyze_trade_for_insider_activity up to its first await
ETM_ReceiveSubgraph ==
    /\ UNCHANGED not_etm
    /\ etm_pc["sub"] = "idle"
    /\ \E h \in EtmHashes \cup {NoHash} :
          IF h = NoHash
          THEN UNCHANGED <<processed_trade_hashes, etm_pc, etm_cur, etm_lk,
                           etm_out, etm_evals, etm_dropped>>
          ELSE IF Seen(processed_trade_hashes, h)
          THEN /\ etm_dropped' = etm_dropped \cup {h}
               /\ UNCHANGED <<processed_trade_hashes, etm_pc, etm_cur, etm_lk,
                              etm_out, etm_evals>>
          ELSE \E trade \in {tr \in SubTrades : tr.hash = h} :
               LET entry == AnalyzeEntry(wallet_cache, wd_now, trade) IN
               /\ processed_trade_hashes' = MarkSeen(processed_trade_hashes, h)
               /\ etm_evals' = [etm_evals EXCEPT ![h] = @ + 1]
               /\ etm_lk' = [etm_lk EXCEPT !["sub"] = entry.lk]
               /\ etm_pc' = [etm_pc EXCEPT !["sub"] = entry.pc]
               /\ etm_out' = [etm_out EXCEPT !["sub"] = entry.out]
               /\ etm_cur' = [etm_cur EXCEPT !["sub"] =
                                IF entry.pc = "idle" THEN NoTrade ELSE trade]
               /\ UNCHANGED etm_dropped
    /\ UNCHANGED <<esd_processed, wallet_cache, wd_now>>

\* _analyze_wallet_behavior ends without a profile: the analysis returns None
WdNoProfile(t, result) ==
    /\ etm_lk' = [etm_lk EXCEPT ![t].result = result, ![t].activities = 0,
                                 ![t].done = TRUE]
    /\ etm_pc' = [etm_pc EXCEPT ![t] = AfterProfile(result, etm_cur[t]).pc]
    /\ etm_out' = [etm_out EXCEPT ![t] = AfterProfile(result, etm_cur[t]).out]
    /\ etm_cur' = [etm_cur EXCEPT ![t] =
                     IF AfterProfile(result, etm_cur[t]).pc = "idle"
                     THEN NoTrade ELSE etm_cur[t]]
    /\ UNCHANGED wallet_cache

\* _analyze_wallet_behavior resumes from get_user_activity: the call raised
\* (retries exhausted or circuit open) or returned its records, and then
\* get_user_positions is awaited
WD_Activity(t) ==
    /\ UNCHANGED not_etm
    /\ etm_pc[t] = "activity"
    /\ \E fails \in BOOLEAN, n \in ActivityCounts :
          IF fails
          THEN /\ n = 0
               /\ WdNoProfile(t, OnLookupFailure(etm_lk[t].prior))
          ELSE /\ etm_lk' = [etm_lk EXCEPT ![t].activities = n]
               /\ etm_pc' = [etm_pc EXCEPT ![t] = "positions"]
               /\ UNCHANGED <<wallet_cache, etm_cur, etm_out>>
    /\ UNCHANGED <<processed_trade_hashes, esd_processed, wd_now, etm_evals,
                   etm_dropped>>

\* _analyze_wallet_behavior resumes from get_user_positions: the call raised,
\* or neither activities nor positions exist (return None), or the profile
\* is built, cached and returned to analyze_trade_for_insider_activity
WD_Positions(t) ==
    /\ UNCHANGED not_etm
    /\ etm_pc[t] = "positions"
    /\ \E fails \in BOOLEAN, m \in PositionCounts :
          LET w == etm_lk[t].wallet
              profile == BuildProfile(w, etm_lk[t].activities, m, wd_now)
          IN
          IF fails
          THEN /\ m = 0
               /\ WdNoProfile(t, OnLookupFailure(etm_lk[t].prior))
          ELSE IF etm_lk[t].activities = 0 /\ m = 0
          THEN WdNoProfile(t, NoProfile)
          ELSE /\ wallet_cache' = [wallet_cache EXCEPT ![w] = profile]
               /\ etm_lk' = [etm_lk EXCEPT ![t].result = profile, ![t].activities = 0,
                                        ![t].done = TRUE]
               /\ etm_pc' = [etm_pc EXCEPT ![t] = AfterProfile(profile, etm_cur[t]).pc]
               /\ etm_out' = [etm_out EXCEPT ![t] = AfterProfile(profile, etm_cur[t]).out]
               /\ etm_cur' = [etm_cur EXCEPT ![t] =
                                IF AfterProfile(profile, etm_cur[t]).pc = "idle"
                                THEN NoTrade ELSE etm_cur[t]]
    /\ UNCHANGED <<processed_trade_hashes, esd_processed, wd_now, etm_evals,
                   etm_dropped>>

\* analyze_trade_for_insider_activity resumes from _get_market_context (a
\* context or {}), detects patterns and scores. A profile built without
\* activities keeps unique_markets as a set, the comparison
\* `unique_markets <= 2` raises TypeError and the handler returns None
AN_Market(t) ==
    /\ UNCHANGED not_etm
    /\ etm_pc[t] = "market"
    /\ \E outcome \in {"alert", "none", "raise"} :
          /\ (outcome = "raise") <=> (etm_lk[t].result.total_activities = 0)
          /\ IF outcome = "alert"
             THEN /\ etm_pc' = [etm_pc EXCEPT ![t] = "send_insider"]
                  /\ etm_out' = [etm_out EXCEPT ![t] = "alert"]
                  /\ UNCHANGED etm_cur
             ELSE /\ etm_pc' = [etm_pc EXCEPT ![t] = "idle"]
                  /\ etm_out' = [etm_out EXCEPT ![t] = "none"]
                  /\ etm_cur' = [etm_cur EXCEPT ![t] = NoTrade]
    /\ UNCHANGED <<processed_trade_hashes, esd_processed, wallet_cache, wd_now,
                   etm_lk, etm_evals, etm_dropped>>

\* _send_insider_alert resumes from telegram_bot.send_message, which returns
\* a bool and never raises
ETM_SendInsider(t) ==
    /\ UNCHANGED not_etm
    /\ etm_pc[t] = "send_insider"
    /\ etm_pc' = [etm_pc EXCEPT ![t] = "idle"]
    /\ etm_cur' = [etm_cur EXCEPT ![t] = NoTrade]
    /\ UNCHANGED <<processed_trade_hashes, esd_processed, wallet_cache, wd_now,
                   etm_lk, etm_out, etm_evals, etm_dropped>>

\* time passes
WD_Tick ==
    /\ UNCHANGED not_etm
    /\ wd_now + TickMinutes <= MaxMinutes
    /\ wd_now' = wd_now + TickMinutes
    /\ UNCHANGED <<processed_trade_hashes, esd_processed, wallet_cache, etm_pc,
                   etm_cur, etm_lk, etm_out, etm_evals, etm_dropped>>

NextEnhanced ==
    \/ ETM_ReceiveTraditional
    \/ ETM_History
    \/ ETM_ReceiveSubgraph
    \/ \E t \in Tasks : WD_Activity(t)
    \/ \E t \in Tasks : WD_Positions(t)
    \/ \E t \in Tasks : AN_Market(t)
    \/ \E t \in Tasks : ETM_SendInsider(t)

\* the subgraph task alone, with time passing between and during its lookups
NextWallet ==
    \/ ETM_ReceiveSubgraph
    \/ WD_Activity("sub")
    \/ WD_Positions("sub")
    \/ AN_Market("sub")
    \/ ETM_SendInsider("sub")
    \/ WD_Tick

(***************************************************************************)
(* InsiderDetector: wallet metrics, pattern detection and risk scoring.    *)
(*                                                                         *)
(* Amounts are in USD.  A float of the source is the exact fraction n/d,   *)
(* kept as the record [n, d] with d > 0; comparisons are cross-multiplied. *)
(* round(x, 1) is modelled on the exact value (a value half-way between    *)
(* two tenths goes to the even one, as the decimal rounding does); a       *)
(* returned score is an integer number of tenths.                          *)
(***************************************************************************)
Rat(n, d) == [n |-> n, d |-> d]

\* trade_data: amount in thousandths of a token, price in cents; numeric is
\* FALSE when float() of a field raises; maker 0 is the empty address
TradeAmounts == {10000, 20000, 31720, 40000, 100000}
IaTrades ==
    {[maker |-> 1, amount |-> a, price |-> 50, numeric |-> TRUE] : a \in TradeAmounts}
    \cup {[maker |-> 1, amount |-> 0, price |-> 0, numeric |-> FALSE],
          [maker |-> 0, amount |-> 40000, price |-> 50, numeric |-> TRUE]}
NoIaTrade == [maker |-> 0, amount |-> 0, price |-> 0, numeric |-> FALSE]

\* amount * price * 1000, 0 when a field is not a number
CalculateTradeSizeUsd(trade) ==
    IF trade.numeric THEN (trade.amount * trade.price) \div 100 ELSE 0

\* an activity record: its age in hours, its type, float(amount) * float(price)
\* and the id of its market
HoursAgo == {0, 10, 30}
ActivityTypes == {"BUY", "SELL", "REDEEM"}
IaMarkets == {1, 2, 3}
ActivityRecords ==
    [hours_ago : HoursAgo, type : ActivityTypes, size : {2500}, market : IaMarkets]
\* responses of get_user_activity: at most MaxActs records, newest first
\* (orderBy: timestamp, orderDirection: desc)
ActivityLists ==
    {a \in UNION {[1..n -> ActivityRecords] : n \in 0..MaxActs} :
        \A i \in 1..(Len(a) - 1) : a[i].hours_ago <= a[i + 1].hours_ago}
IaPositionCounts == 0..1

IsTradeActivity(a) == a.type \in {"BUY", "SELL"}

RECURSIVE SumTradeSizes(_)
SumTradeSizes(activities) ==
    IF activities = <<>> THEN 0
    ELSE (IF IsTradeActivity(Head(activities)) THEN Head(activities).size ELSE 0)
         + SumTradeSizes(Tail(activities))

CountType(activities, type) ==
    Cardinality({i \in 1..Len(activities) : activities[i].type = type})

\* None
NoAnalysis ==
    [obtained |-> FALSE, total_activities |-> 0, total_positions |-> 0,
     is_new_wallet |-> FALSE, trading_frequency |-> Rat(0, 1),
     average_trade_size |-> Rat(0, 1), markets_is_set |-> TRUE,
     unique_markets |-> 0, buy_sell_ratio |-> Rat(0, 1)]

\* the analysis dict as it is first built: unique_markets is still set()
DefaultAnalysis(activities, positions) ==
    [obtained |-> TRUE, total_activities |-> Len(activities),
     total_positions |-> positions,
     is_new_wallet |-> FALSE, trading_frequency |-> Rat(0, 1),
     average_trade_size |-> Rat(0, 1), markets_is_set |-> TRUE,
     unique_markets |-> 0, buy_sell_ratio |-> Rat(0, 1)]

\* the metrics _analyze_wallet_behavior computes from the two responses
WalletAnalysis(activities, positions) ==
    IF Len(activities) = 0 /\ positions = 0 THEN NoAnalysis
    ELSE IF Len(activities) = 0 THEN DefaultAnalysis(activities, positions)
    ELSE
      LET ages == {activities[i].hours_ago : i \in 1..Len(activities)}
          oldest == CHOOSE h \in ages : \A g \in ages : g <= h
          newest == CHOOSE h \in ages : \A g \in ages : h <= g
          time_span == oldest - newest
          buy_count == CountType(activities, "BUY")
          sell_count == CountType(activities, "SELL")
          total_trades == buy_count + sell_count
      IN [DefaultAnalysis(activities, positions) EXCEPT
            !.is_new_wallet = (oldest <= NewWalletHours),
            !.trading_frequency =
                IF time_span > 0 THEN Rat(Len(activities), time_span) ELSE Rat(0, 1),
            !.average_trade_size =
                IF total_trades > 0 THEN Rat(SumTradeSizes(activities), total_trades)
                ELSE Rat(0, 1),
            !.buy_sell_ratio =
                IF total_trades > 0 THEN Rat(buy_count, total_trades) ELSE Rat(0, 1),
            !.markets_is_set = FALSE,
            !.unique_markets =
                Cardinality({activities[i].market : i \in 1..Len(activities)})]

\* what _get_market_context hands to its caller: a market_context, or the
\* exception it lets through (raised).  {} has no key, so
\* .get('is_expiring_soon') is falsy
EmptyContext == [raised |-> FALSE, present |-> FALSE, is_expiring_soon |-> FALSE]
MarketContexts ==
    {EmptyContext} \cup [raised : {FALSE}, present : {TRUE}, is_expiring_soon : BOOLEAN]

\* _get_market_context when get_market_data raises: the except clause
\* returns {}
OnMarketFailurePropagate ==
    [raised |-> TRUE, present |-> FALSE, is_expiring_soon |-> FALSE]
OnMarketFailure == EmptyContext

\* _get_market_context: what it returns for each outcome of the lookup
MarketContext(outcome, expiring) ==
    IF outcome = "ok"
    THEN [raised |-> FALSE, present |-> TRUE, is_expiring_soon |-> expiring]
    ELSE IF outcome = "failed" THEN OnMarketFailure
    ELSE EmptyContext

Pattern(type, confidence, severity) ==
    [type |-> type, confidence |-> confidence, severity |-> severity]

\* min(40 + (size_multiplier - 5) * 10, 80), size_multiplier = size / avg
UnusualConfidence(size, avg) ==
    LET num == 10 * size * avg.d - 10 * avg.n
    IN IF num >= 80 * avg.n THEN Rat(80, 1) ELSE Rat(num, avg.n)

\* the trigger of rule 1
NewWalletLargeTradeAtFive(w, size) == w.is_new_wallet /\ size >= MinTradeSizeUsd * 5
NewWalletLargeTrade(w, size) == w.is_new_wallet /\ size >= MinTradeSizeUsd * 2

\* _detect_insider_patterns: raised is TRUE when the comparison of rule 5
\* raises TypeError (unique_markets is still a set)
DetectInsiderPatterns(trade, w, ctx) ==
    LET size == CalculateTradeSizeUsd(trade)
        avg == w.average_trade_size
        freq == w.trading_frequency
        ratio == w.buy_sell_ratio
        p1 == IF NewWalletLargeTrade(w, size)
              THEN {Pattern("NEW_WALLET_LARGE_TRADE", Rat(60, 1), "HIGH")} ELSE {}
        p2 == IF size > 0 /\ avg.n > 0 /\ size * avg.d >= LargeTradeMultiplier * avg.n
              THEN {Pattern("UNUSUALLY_LARGE_TRADE", UnusualConfidence(size, avg),
                            IF size * avg.d >= 10 * avg.n THEN "HIGH" ELSE "MEDIUM")}
              ELSE {}
        p3 == IF ctx.is_expiring_soon /\ size >= MinTradeSizeUsd
              THEN {Pattern("EXPIRING_MARKET_ACTIVITY", Rat(50, 1), "MEDIUM")} ELSE {}
        p4 == IF 10 * freq.n < freq.d /\ size >= MinTradeSizeUsd
              THEN {Pattern("SUDDEN_ACTIVITY", Rat(45, 1), "MEDIUM")} ELSE {}
        p5 == IF w.unique_markets <= 2 /\ 2 * size >= 3 * MinTradeSizeUsd
              THEN {Pattern("CONCENTRATED_TRADING", Rat(35, 1), "LOW")} ELSE {}
        p6 == IF 10 * ratio.n >= 9 * ratio.d \/ 10 * ratio.n <= ratio.d
              THEN {Pattern("IMBALANCED_TRADING", Rat(30, 1), "LOW")} ELSE {}
    IN IF w.markets_is_set
       THEN [raised |-> TRUE, patterns |-> {}]
       ELSE [raised |-> FALSE, patterns |-> p1 \cup p2 \cup p3 \cup p4 \cup p5 \cup p6]
NoDetect == [raised |-> FALSE, patterns |-> {}]

\* sum(p['confidence'] for p in patterns)
RECURSIVE SumConfidence(_)
SumConfidence(patterns) ==
    IF patterns = {} THEN Rat(0, 1)
    ELSE LET p == CHOOSE q \in patterns : TRUE
             r == SumConfidence(patterns \ {p})
         IN Rat(p.confidence.n * r.d + r.n * p.confidence.d, p.confidence.d * r.d)

\* round(x, 1), in tenths
Round1(x) ==
    LET q == (10 * x.n) \div x.d
        r == (10 * x.n) % x.d
    IN IF 2 * r > x.d THEN q + 1
       ELSE IF 2 * r < x.d THEN q
       ELSE IF q % 2 = 0 THEN q ELSE q + 1

\* the tier of the unrounded final_score
RiskLevel(final) ==
    IF final.n >= 80 * final.d THEN "CRITICAL"
    ELSE IF final.n >= 60 * final.d THEN "HIGH"
    ELSE IF final.n >= 40 * final.d THEN "MEDIUM"
    ELSE "LOW"

\* the multiplier of _calculate_risk_score, in twentieths
NewWalletBonus(w) == IF w.is_new_wallet THEN 8 ELSE 0
MultiplierCountPenalty(patterns, trade, w) == 26 - 3 * Cardinality(patterns)
Multiplier(patterns, trade, w) ==
    LET size == CalculateTradeSizeUsd(trade)
        count == Cardinality(patterns)
    IN 20
       + (IF size >= MinTradeSizeUsd * 5 THEN 6
          ELSE IF size >= MinTradeSizeUsd * 2 THEN 3 ELSE 0)
       + NewWalletBonus(w)
       + (IF count >= 3 THEN 6 ELSE IF count >= 2 THEN 3 ELSE 0)

NoRisk == [score |-> 0, level |-> "LOW", final |-> Rat(0, 1)]
\* _calculate_risk_score: the returned (rounded) score in tenths, the tier,
\* and the unrounded final_score
CalculateRiskScore(patterns, trade, w) ==
    IF patterns = {} THEN NoRisk
    ELSE LET total == SumConfidence(patterns)
             raw == Rat(total.n * Multiplier(patterns, trade, w),
                        total.d * Cardinality(patterns) * 20)
             final == IF raw.n >= 100 * raw.d THEN Rat(100, 1) ELSE raw
         IN [score |-> Round1(final), level |-> RiskLevel(final), final |-> final]

\* analyze_trade_for_insider_activity, lines 76-98: is an InsiderAlert returned
ReturnsAlertAlways(patterns, risk) == TRUE
ReturnsAlert(patterns, risk) ==
    IF patterns = {} THEN FALSE ELSE risk.score >= MinConfidence * 10

\* analyze_trade_for_insider_activity from the return of
\* _get_market_context on; an exception is caught by the handler of line
\* 100, which returns None
Evaluate(trade, w, ctx) ==
    LET detect == IF ctx.raised THEN NoDetect
                  ELSE DetectInsiderPatterns(trade, w, ctx)
        risk == IF ctx.raised \/ detect.raised \/ detect.patterns = {} THEN NoRisk
                ELSE CalculateRiskScore(detect.patterns, trade, w)
    IN [detect |-> detect, risk |-> risk,
        result |-> IF ~ctx.raised /\ ~detect.raised
                      /\ ReturnsAlert(detect.patterns, risk)
                   THEN "alert" ELSE "none"]

\* analyze_trade_for_insider_activity, lines 66-68: the size check
PassesSizeCheckAlways(trade) == TRUE
PassesSizeCheck(trade) == CalculateTradeSizeUsd(trade) >= MinTradeSizeUsd

InitInsider ==
    /\ ia_pc = "idle"
    /\ ia_trade = NoIaTrade
    /\ ia_activities = <<>>
    /\ ia_positions = 0
    /\ ia_wallet = NoAnalysis
    /\ ia_market = "unset"
    /\ ia_context = EmptyContext
    /\ ia_detect = NoDetect
    /\ ia_risk = NoRisk
    /\ ia_result = "pending"

\* analyze_trade_for_insider_activity up to its second await: the wallet
\* analysis (lookup_ok is FALSE when a lookup raises) and the size check
IA_Call ==
    /\ UNCHANGED not_ia
    /\ ia_pc = "idle"
    /\ \E trade \in IaTrades, activities \in ActivityLists,
          positions \in IaPositionCounts, lookup_ok \in BOOLEAN :
          LET w == IF trade.maker = 0 \/ ~lookup_ok THEN NoAnalysis
                   ELSE WalletAnalysis(activities, positions)
              proceed == w.obtained /\ PassesSizeCheck(trade)
          IN /\ (trade.maker = 0 \/ ~lookup_ok) => (activities = <<>> /\ positions = 0)
             /\ (trade.maker = 0) => lookup_ok
             /\ ia_trade' = trade
             /\ ia_activities' = activities
             /\ ia_positions' = positions
             /\ ia_wallet' = w
             /\ ia_pc' = IF proceed THEN "market" ELSE "done"
             /\ ia_result' = IF proceed THEN "pending" ELSE "none"
    /\ UNCHANGED <<ia_market, ia_context, ia_detect, ia_risk>>

\* _get_market_context returns; detection, scoring and the confidence gate
IA_Market ==
    /\ UNCHANGED not_ia
    /\ ia_pc = "market"
    /\ \E outcome \in {"no_market", "failed", "ok"}, expiring \in BOOLEAN :
          LET ctx == MarketContext(outcome, expiring)
              e == Evaluate(ia_trade, ia_wallet, ctx)
          IN /\ (outcome # "ok") => ~expiring
             /\ ia_market' = outcome
             /\ ia_context' = ctx
             /\ ia_detect' = e.detect
             /\ ia_risk' = e.risk
             /\ ia_result' = e.result
    /\ ia_pc' = "done"
    /\ UNCHANGED <<ia_trade, ia_activities, ia_positions, ia_wallet>>

\* _detect_insider_patterns and _calculate_risk_score applied to a trade, a
\* wallet analysis and a market context
PD_Apply ==
    /\ UNCHANGED not_ia
    /\ ia_pc = "idle"
    /\ \E trade \in IaTrades, activities \in ActivityLists,
          positions \in IaPositionCounts, ctx \in MarketContexts :
          LET w == WalletAnalysis(activities, positions)
              detect == DetectInsiderPatterns(trade, w, ctx)
          IN /\ w.obtained
             /\ trade.maker # 0
             /\ ia_trade' = trade
             /\ ia_activities' = activities
             /\ ia_positions' = positions
             /\ ia_wallet' = w
             /\ ia_context' = ctx
             /\ ia_detect' = detect
             /\ ia_risk' = CalculateRiskScore(detect.patterns, trade, w)
    /\ ia_pc' = "applied"
    /\ UNCHANGED <<ia_market, ia_result>>

\* the call has returned; the next one starts from scratch
IA_Return ==
    /\ UNCHANGED not_ia
    /\ ia_pc \in {"done", "applied"}
    /\ ia_pc' = "idle"
    /\ ia_trade' = NoIaTrade
    /\ ia_activities' = <<>>
    /\ ia_positions' = 0
    /\ ia_wallet' = NoAnalysis
    /\ ia_market' = "unset"
    /\ ia_context' = EmptyContext
    /\ ia_detect' = NoDetect
    /\ ia_risk' = NoRisk
    /\ ia_result' = "pending"

NextInsider ==
    \/ IA_Call
    \/ IA_Market
    \/ PD_Apply
    \/ IA_Return


(***************************************************************************)
(* CircuitBreaker (utils/retry.py).  api_circuit_breaker is one module     *)
(* level object: every decorated coroutine of goldsky_client.py and        *)
(* connection_manager.py goes through it, so the traditional and the       *)
(* subgraph task of EnhancedTradeMonitor are two concurrent callers.       *)
(* _async_call runs without suspension up to await func(...) and again     *)
(* from the return or raise of func to its own end.                        *)
(***************************************************************************)
\* last_failure_time = None
NoFailureTime == -1

\* CircuitBreaker.__init__ with failure_threshold=3, timeout=30
NewBreaker == [state |-> "CLOSED", failure_count |-> 0,
               last_failure_time |-> NoFailureTime]

\* _should_attempt_reset
ShouldAttemptReset(b, now) ==
    /\ b.last_failure_time # NoFailureTime
    /\ now - b.last_failure_time > BreakerTimeout

OnSuccessKeepCount(b) == [b EXCEPT !.state = "CLOSED"]

\* _on_success
OnSuccess(b) == [b EXCEPT !.failure_count = 0, !.state = "CLOSED"]

\* _on_failure
OnFailure(b, now) ==
    LET n == b.failure_count + 1
    IN [state |-> IF n >= FailureThreshold THEN "OPEN" ELSE b.state,
        failure_count |-> n,
        last_failure_time |-> now]

\* the head of _async_call: is the call let through, and the breaker after it
Rejected(b, now) == b.state = "OPEN" /\ ~ShouldAttemptReset(b, now)
Admit(b, now) ==
    IF b.state = "OPEN" /\ ShouldAttemptReset(b, now)
    THEN [b EXCEPT !.state = "HALF_OPEN"]
    ELSE b

\* the tail of _async_call.  await func(...) returns ("success"), raises an
\* exception of expected_exception (APIError, ConnectionError: "failure"),
\* or raises another one ("other": KeyError or ValueError of a malformed
\* record, the cancellation of the task)
Complete(b, outcome, now) ==
    CASE outcome = "success" -> OnSuccess(b)
      [] outcome = "failure" -> OnFailure(b, now)
      [] OTHER -> b

InitBreaker ==
    /\ api_circuit_breaker = NewBreaker
    /\ cb_now = 0
    /\ cb_pc = [c \in Tasks |-> "idle"]
    /\ cb_probe = [c \in Tasks |-> FALSE]
    /\ cb_result = [c \in Tasks |-> "none"]
    /\ cb_streak = 0

\* _async_call up to await func(...), or to raise Exception("Circuit breaker is OPEN")
CB_Call(c) ==
    /\ cb_pc[c] = "idle"
    /\ IF Rejected(api_circuit_breaker, cb_now)
       THEN /\ cb_result' = [cb_result EXCEPT ![c] = "rejected"]
            /\ UNCHANGED <<api_circuit_breaker, cb_pc, cb_probe>>
       ELSE /\ api_circuit_breaker' = Admit(api_circuit_breaker, cb_now)
            /\ cb_pc' = [cb_pc EXCEPT ![c] = "call"]
            /\ cb_probe' = [cb_probe EXCEPT ![c] = (api_circuit_breaker.state = "OPEN")]
            /\ cb_result' = [cb_result EXCEPT ![c] = "none"]
    /\ UNCHANGED <<cb_now, cb_streak>>
    /\ UNCHANGED not_cb

\* _async_call from the end of func to its own end
CB_Return(c) ==
    /\ cb_pc[c] = "call"
    /\ \E outcome \in {"success", "failure", "other"} :
         /\ outcome = "failure" => api_circuit_breaker.failure_count < MaxFailureCount
         /\ api_circuit_breaker' = Complete(api_circuit_breaker, outcome, cb_now)
         /\ cb_result' = [cb_result EXCEPT ![c] = outcome]
         /\ cb_streak' = CASE outcome = "success" -> 0
                           [] outcome = "failure" -> cb_streak + 1
                           [] OTHER -> cb_streak
    /\ cb_pc' = [cb_pc EXCEPT ![c] = "idle"]
    /\ UNCHANGED <<cb_now, cb_probe>>
    /\ UNCHANGED not_cb

\* time passes
CB_Tick ==
    /\ cb_now + BreakerTick <= BreakerMaxNow
    /\ cb_now' = cb_now + BreakerTick
    /\ UNCHANGED <<api_circuit_breaker, cb_pc, cb_probe, cb_result, cb_streak>>
    /\ UNCHANGED not_cb

NextBreaker ==
    \/ \E c \in Tasks : CB_Call(c)
    \/ \E c \in Tasks : CB_Return(c)
    \/ CB_Tick


(***************************************************************************)
(* ConnectionManager.get_recent_trades (connection_manager.py:99-138).     *)
(* The decorators make a call pass api_circuit_breaker, then retry_async,  *)
(* then the body; the body requests /trades, then calls get_markets, which *)
(* passes the same breaker and its own retry_async, and then converts the  *)
(* records.  httpx.HTTPError is raised again as APIError; nothing else is  *)
(* caught.  The sleeps of retry_async and rate_limit_async are where       *)
(* CB_Tick may interleave.                                                 *)
(***************************************************************************)
\* trades_data of a /trades response: the price of a record is a decimal
\* string, another string, or the field is missing
RawBatches ==
    LET RawRecords == [transaction_hash : 1..NumRawHashes,
                       price : {"0.25", "abc", "<missing>"}]
    IN UNION {[1..n -> RawRecords] : n \in 0..BatchLimit}

\* float(trade_data["price"]): the value in hundredths; KeyError for a
\* missing field and ValueError for a string that is not a number
Float(raw) ==
    CASE raw = "0.25" -> [raised |-> FALSE, value |-> 25]
      [] OTHER -> [raised |-> TRUE, value |-> 0]

\* Trade(...) of one record, size 1: usd_size = size * price * 1000
ConvertRecord(r) ==
    [transaction_hash |-> r.transaction_hash,
     usd_size |-> Float(r.price).value * 10]

\* the for loop of get_recent_trades: the first record that raises ends it
ConvertBatch(batch) ==
    IF \E i \in DOMAIN batch : Float(batch[i].price).raised
    THEN [raised |-> TRUE, trades |-> <<>>]
    ELSE [raised |-> FALSE, trades |-> [i \in DOMAIN batch |-> ConvertRecord(batch[i])]]

NoRequests == [trades |-> 0, markets |-> 0]

InitRetry ==
    /\ rt_pc = "idle"
    /\ rt_attempt = 0
    /\ rt_inner = 0
    /\ rt_requests = NoRequests
    /\ rt_raw = <<>>
    /\ rt_result = "none"
    /\ rt_trades = <<>>

\* the call ends: it returns trades or raises
RT_End(b, result, trades) ==
    /\ api_circuit_breaker' = b
    /\ rt_pc' = "idle"
    /\ rt_result' = result
    /\ rt_trades' = trades
    /\ UNCHANGED <<rt_attempt, rt_inner>>

\* the body of get_recent_trades raised APIError: except clause of the outer
\* retry_async, and of the breaker once the attempts are used up
RT_BodyFailed(b) ==
    IF rt_attempt = MaxAttempts - 1
    THEN RT_End(OnFailure(b, cb_now), "api_error", <<>>)
    ELSE /\ api_circuit_breaker' = b
         /\ rt_pc' = "trades"
         /\ rt_attempt' = rt_attempt + 1
         /\ UNCHANGED <<rt_inner, rt_result, rt_trades>>

\* get_markets returned: the record loop, then the return through the outer
\* retry_async and breaker
RT_Convert(b, batch) ==
    LET c == ConvertBatch(batch)
    IN IF c.raised
       THEN RT_End(b, "parse_error", <<>>)
       ELSE RT_End(OnSuccess(b), "ok", c.trades)

\* a call of get_recent_trades up to its first request
RT_Call ==
    /\ rt_pc = "idle"
    /\ rt_requests' = NoRequests
    /\ rt_raw' = <<>>
    /\ IF Rejected(api_circuit_breaker, cb_now)
       THEN RT_End(api_circuit_breaker, "breaker_open", <<>>)
       ELSE /\ api_circuit_breaker' = Admit(api_circuit_breaker, cb_now)
            /\ rt_pc' = "trades"
            /\ rt_attempt' = 0
            /\ rt_inner' = 0
            /\ rt_result' = "pending"
            /\ rt_trades' = <<>>
    /\ UNCHANGED cb_now
    /\ UNCHANGED not_rt

\* the /trades request ends; on a response, the call of get_markets up to its
\* cache test or its first request
RT_Trades ==
    /\ rt_pc = "trades"
    /\ rt_requests' = [rt_requests EXCEPT !.trades = @ + 1]
    /\ \/ /\ api_circuit_breaker.failure_count < MaxFailureCount
          /\ RT_BodyFailed(api_circuit_breaker)
          /\ UNCHANGED rt_raw
       \/ \E batch \in RawBatches :
            /\ rt_raw' = batch
            /\ IF Rejected(api_circuit_breaker, cb_now)
               THEN RT_End(api_circuit_breaker, "breaker_open", <<>>)
               ELSE LET b == Admit(api_circuit_breaker, cb_now)
                    IN \/ RT_Convert(OnSuccess(b), batch)
                       \/ /\ api_circuit_breaker' = b
                          /\ rt_pc' = "markets"
                          /\ rt_inner' = 0
                          /\ UNCHANGED <<rt_attempt, rt_result, rt_trades>>
    /\ UNCHANGED cb_now
    /\ UNCHANGED not_rt

\* the /markets request ends
RT_Markets ==
    /\ rt_pc = "markets"
    /\ rt_requests' = [rt_requests EXCEPT !.markets = @ + 1]
    /\ \/ RT_Convert(OnSuccess(api_circuit_breaker), rt_raw)
       \/ /\ api_circuit_breaker.failure_count < MaxFailureCount
          /\ IF rt_inner = MaxAttempts - 1
             THEN RT_BodyFailed(OnFailure(api_circuit_breaker, cb_now))
             ELSE /\ rt_inner' = rt_inner + 1
                  /\ UNCHANGED <<api_circuit_breaker, rt_pc, rt_attempt, rt_result, rt_trades>>
    /\ UNCHANGED <<cb_now, rt_raw>>
    /\ UNCHANGED not_rt

NextRetry ==
    \/ RT_Call
    \/ RT_Trades
    \/ RT_Markets
    \/ CB_Tick


(***************************************************************************)
(* EnhancedTradeMonitor.stop (enhanced_trade_monitor.py:62-79) and the two *)
(* monitor tasks.  Both tasks run the same loop shape (_monitor_polling    *)
(* 123-149, _monitor_subgraph 151-172): while self.running: try: fetch     *)
(* through retry_async, analyse the trades, sleep; except Exception:       *)
(* sleep.  A task takes a step when the event loop resumes it from its     *)
(* await; after cancel() the resumption throws CancelledError into it.     *)
(***************************************************************************)
\* retry_async: except exceptions, with the default
\* (APIError, ConnectionError, WebSocketError)
RetryCatchesAll(exc) == TRUE

RetryCatches(exc) == exc \in {"APIError", "ConnectionError", "WebSocketError"}

\* except Exception: asyncio.CancelledError derives from BaseException
ExceptionCatches(exc) == exc # "CancelledError"

StEnded == {"cancelled", "finished"}

InitStop ==
    /\ st_running = TRUE
    /\ st_pc = [t \in Tasks |-> "fetch"]
    /\ st_attempt = [t \in Tasks |-> 0]
    /\ st_cancel = [t \in Tasks |-> FALSE]
    /\ st_cancelled_at = [t \in Tasks |-> "none"]
    /\ st_after = [t \in Tasks |-> 0]
    /\ st_stop = "not_called"

\* where task t goes when exc is raised at its await in position pc: the
\* except clause of retry_async applies to the fetch only (its sleep is
\* inside the handler), then the except Exception of the loop
StRaise(t, exc) ==
    IF st_pc[t] = "fetch" /\ RetryCatches(exc) /\ st_attempt[t] < MaxAttempts - 1
    THEN "backoff"
    ELSE IF ExceptionCatches(exc) THEN "sleep" ELSE "cancelled"

\* the event loop resumes task t
ST_Resume(t) ==
    /\ st_pc[t] \notin StEnded
    /\ \E to \in {"fetch", "backoff", "analyse", "sleep", "cancelled", "finished"} :
         /\ IF st_cancel[t]
            THEN to = StRaise(t, "CancelledError")
            ELSE CASE st_pc[t] = "fetch" ->
                        \/ to \in {"analyse", "sleep"}
                        \/ to = StRaise(t, "APIError")
                   [] st_pc[t] = "backoff" -> to = "fetch"
                   [] st_pc[t] = "analyse" -> to \in {"analyse", "sleep"}
                   [] OTHER -> to = IF st_running THEN "fetch" ELSE "finished"
         /\ st_pc' = [st_pc EXCEPT ![t] = to]
         /\ st_attempt' = [st_attempt EXCEPT ![t] =
                              CASE to = "fetch" /\ st_pc[t] = "backoff" -> @ + 1
                                [] to = "fetch" -> 0
                                [] OTHER -> @]
         /\ st_after' = [st_after EXCEPT ![t] =
                            IF /\ st_cancelled_at[t] # "none"
                               /\ \/ to = "fetch"
                                  \/ st_pc[t] = "analyse" /\ ~st_cancel[t]
                            THEN 1 ELSE @]
    /\ st_cancel' = [st_cancel EXCEPT ![t] = FALSE]
    /\ UNCHANGED <<st_running, st_cancelled_at, st_stop>>
    /\ UNCHANGED not_st

\* cancel() of task t: nothing is thrown into a task that has ended
StCancel(t) ==
    /\ st_cancel' = [st_cancel EXCEPT ![t] = st_pc[t] \notin StEnded]
    /\ st_cancelled_at' = [st_cancelled_at EXCEPT ![t] = st_pc[t]]

\* stop() up to await self._monitor_task
ST_StopCall ==
    /\ st_stop = "not_called"
    /\ st_running' = FALSE
    /\ StCancel("trad")
    /\ st_stop' = "await_trad"
    /\ UNCHANGED <<st_pc, st_attempt, st_after>>
    /\ UNCHANGED not_st

\* stop() resumed when the task it awaits has ended
ST_StopAwait ==
    /\ \/ /\ st_stop = "await_trad"
          /\ st_pc["trad"] \in StEnded
          /\ StCancel("sub")
          /\ st_stop' = "await_sub"
       \/ /\ st_stop = "await_sub"
          /\ st_pc["sub"] \in StEnded
          /\ st_stop' = "returned"
          /\ UNCHANGED <<st_cancel, st_cancelled_at>>
    /\ UNCHANGED <<st_running, st_pc, st_attempt, st_after>>
    /\ UNCHANGED not_st

NextStop ==
    \/ \E t \in Tasks : ST_Resume(t)
    \/ ST_StopCall
    \/ ST_StopAwait


(***************************************************************************)
(* rate_limit_async (utils/retry.py:153-179).  last_called belongs to the  *)
(* decorated function and is shared by all its callers; the wrapper reads  *)
(* it, may sleep, and writes it after the sleep.                           *)
(***************************************************************************)
InitRate ==
    /\ rl_now = MinIntervalTicks
    /\ last_called = 0
    /\ rl_pc = [c \in Tasks |-> "idle"]
    /\ rl_wake = [c \in Tasks |-> 0]
    /\ rl_starts = <<>>

\* wrapper up to asyncio.sleep(sleep_time), or up to await func(...)
RL_Call(c) ==
    /\ rl_pc[c] = "idle"
    /\ Len(rl_starts) + Cardinality({d \in Tasks : rl_pc[d] = "sleep"}) < MaxRateCalls
    /\ LET time_since_last_call == rl_now - last_called
       IN IF time_since_last_call < MinIntervalTicks
          THEN /\ rl_pc' = [rl_pc EXCEPT ![c] = "sleep"]
               /\ rl_wake' = [rl_wake EXCEPT ![c] =
                                 rl_now + (MinIntervalTicks - time_since_last_call)]
               /\ UNCHANGED <<last_called, rl_starts>>
          ELSE /\ last_called' = rl_now
               /\ rl_starts' = Append(rl_starts, rl_now)
               /\ UNCHANGED <<rl_pc, rl_wake>>
    /\ UNCHANGED rl_now
    /\ UNCHANGED not_rl

\* wrapper from the end of its sleep to await func(...)
RL_Wake(c) ==
    /\ rl_pc[c] = "sleep"
    /\ rl_now >= rl_wake[c]
    /\ last_called' = rl_now
    /\ rl_starts' = Append(rl_starts, rl_now)
    /\ rl_pc' = [rl_pc EXCEPT ![c] = "idle"]
    /\ UNCHANGED <<rl_now, rl_wake>>
    /\ UNCHANGED not_rl

\* time passes
RL_Tick ==
    /\ rl_now < MaxLoopTime
    /\ rl_now' = rl_now + 1
    /\ UNCHANGED <<last_called, rl_pc, rl_wake, rl_starts>>
    /\ UNCHANGED not_rl

NextRate ==
    \/ \E c \in Tasks : RL_Call(c)
    \/ \E c \in Tasks : RL_Wake(c)
    \/ RL_Tick


(***************************************************************************)
(* The dedup check of the three ledgers on full trade records, and the     *)
(* notifier.  LargeTradeMonitor._process_trade (large_trade_monitor.py:    *)
(* 79-88) and EnhancedTradeMonitor._analyze_trade (enhanced_trade_monitor  *)
(* .py:287-291) test and add the transaction hash; SuspiciousTradeDetector *)
(* .analyze_trade (suspicious_trade_detector.py:46-51) tests and adds      *)
(* f"{transaction_hash}_{maker}_{taker}".  TelegramAlertBot.send_message   *)
(* returns False when the delivery fails; the callers ignore the result.   *)
(***************************************************************************)
Monitors == {"large", "enhanced", "detector"}
KeyRecords == [transaction_hash : 1..NumKeyHashes,
               maker : {"0xa", "0xb"}, taker : {"0xc"}]

\* the key under which monitor m files record r
TradeKey(m, r) ==
    IF m = "detector"
    THEN <<r.transaction_hash, r.maker, r.taker>>
    ELSE <<r.transaction_hash>>

OnNotifierFailureForget(ledger, key) == ledger \ {key}

\* the ledger after send_message has returned False for the alert of key
OnNotifierFailure(ledger, key) == ledger

NoDelivery == [record |-> [transaction_hash |-> 0, maker |-> "", taker |-> ""],
               fresh |-> FALSE, outcome |-> "none"]

InitKeys ==
    /\ dk_monitor = "none"
    /\ dk_ledger = {}
    /\ dk_delivered = {}
    /\ dk_last = NoDelivery
    /\ dk_failed = {}
    /\ dk_resent = FALSE
    /\ dk_cleared = FALSE

\* monitor m is handed record r: dropped at the dedup check, or marked and
\* evaluated; the evaluation sends no alert, or calls send_message, which
\* delivers or fails (the detector only returns its alert)
DK_Deliver(m, r) ==
    /\ dk_monitor \in {"none", m}
    /\ dk_monitor' = m
    /\ LET key == TradeKey(m, r)
           fresh == <<r.transaction_hash, r.maker, r.taker>> \notin dk_delivered
       IN IF Seen(dk_ledger, key)
          THEN /\ dk_last' = [record |-> r, fresh |-> fresh, outcome |-> "dropped"]
               /\ UNCHANGED <<dk_ledger, dk_failed, dk_resent>>
          ELSE \E outcome \in {"no_alert", "sent", "send_failed"} :
                 /\ m = "detector" => outcome = "no_alert"
                 /\ dk_last' = [record |-> r, fresh |-> fresh, outcome |-> outcome]
                 /\ dk_ledger' = IF outcome = "send_failed"
                                 THEN OnNotifierFailure(MarkSeen(dk_ledger, key), key)
                                 ELSE MarkSeen(dk_ledger, key)
                 /\ dk_failed' = IF outcome = "send_failed"
                                 THEN dk_failed \cup {key} ELSE dk_failed
                 /\ dk_resent' = (dk_resent \/ (outcome # "no_alert" /\ key \in dk_failed))
    /\ dk_delivered' = dk_delivered \cup {<<r.transaction_hash, r.maker, r.taker>>}
    /\ UNCHANGED dk_cleared
    /\ UNCHANGED not_dk

\* LargeTradeMonitor.start after a round, and clear_processed_trades of the
\* detector: the ledger is emptied when it holds more than the maximum;
\* EnhancedTradeMonitor never clears processed_trade_hashes
DK_Clear ==
    /\ dk_monitor \in {"large", "detector"}
    /\ dk_ledger' = ClearIfOversize(dk_ledger, MaxProcessed)
    /\ dk_ledger' # dk_ledger
    /\ dk_delivered' = {}
    /\ dk_cleared' = TRUE
    /\ UNCHANGED <<dk_monitor, dk_last, dk_failed, dk_resent>>
    /\ UNCHANGED not_dk

NextKeys ==
    \/ \E m \in Monitors, r \in KeyRecords : DK_Deliver(m, r)
    \/ DK_Clear


(***************************************************************************)
(* PolymarketInsiderApp (main.py).  start() is suspended in turn in        *)
(* connection_manager.initialize(), telegram_bot.initialize(),             *)
(* telegram_bot.start_polling() and telegram_bot.send_message();           *)
(* health_checker.start() and trade_monitor.start() create their task and  *)
(* return without suspension (trade_monitor.py:32-36), so the finally      *)
(* clause of start() follows directly.  stop() is called there and by the  *)
(* signal handler; it returns at once unless self.running.                 *)
(***************************************************************************)
\* the order in which stop() goes through the components
StopOrder == <<"trade_monitor", "health_checker", "telegram_bot", "connection_manager">>

InitApp ==
    /\ app_pc = "new"
    /\ app_running = FALSE
    /\ app_components = {}
    /\ app_stop = 0
    /\ app_cleaned = {}
    /\ app_task = "none"
    /\ app_steps = 0
    /\ app_signals = 0
    /\ app_cause = "none"

\* stop() up to its first await, with the monitor task as it is at the call:
\* nothing unless self.running; otherwise trade_monitor.stop() is entered,
\* which cancels the task before it awaits it
CallStop(cause, task) ==
    IF app_running
    THEN /\ app_running' = FALSE
         /\ app_stop' = 1
         /\ app_cause' = cause
         /\ app_task' = IF "trade_monitor" \in app_components /\ task # "none"
                         THEN "cancelled" ELSE task
    ELSE /\ app_task' = task
         /\ UNCHANGED <<app_running, app_stop, app_cause>>

\* await self.stop() in the finally clause of start(): start() is done when
\* that call returns, at once if it does not pass the running test
AppFinally(cause, task) ==
    /\ CallStop(cause, task)
    /\ app_pc' = IF app_running THEN "in_stop" ELSE "returned"

\* start() is resumed from its await: the awaited call has returned, or it
\* has raised and the except and finally clauses run
APP_Resume ==
    /\ app_pc \in {"new", "cm_init", "bot_init", "polling", "send"}
    /\ \/ /\ app_pc = "new"
          /\ app_components' = {"connection_manager"}
          /\ app_pc' = "cm_init"
          /\ UNCHANGED <<app_running, app_stop, app_cause, app_task>>
       \/ /\ app_pc = "cm_init"
          /\ app_components' = app_components \cup {"telegram_bot"}
          /\ app_pc' = "bot_init"
          /\ UNCHANGED <<app_running, app_stop, app_cause, app_task>>
       \/ /\ app_pc = "bot_init"
          /\ app_components' = app_components \cup {"trade_monitor", "health_checker"}
          /\ app_running' = TRUE
          /\ app_pc' = "polling"
          /\ UNCHANGED <<app_stop, app_cause, app_task>>
       \/ /\ app_pc = "polling"
          /\ app_pc' = "send"
          /\ UNCHANGED <<app_running, app_components, app_stop, app_cause, app_task>>
       \/ /\ app_pc = "send"
          /\ AppFinally("return", "created")
          /\ UNCHANGED app_components
       \/ /\ app_pc \in {"cm_init", "bot_init", "polling"}
          /\ AppFinally("error", app_task)
          /\ UNCHANGED app_components
    /\ UNCHANGED <<app_cleaned, app_steps, app_signals>>
    /\ UNCHANGED not_app

\* signal_handler, installed by _setup_signal_handlers, and the stop() task
\* it creates
APP_Signal ==
    /\ app_pc \in {"polling", "send", "in_stop", "returned"}
    /\ app_signals < MaxSignals
    /\ app_signals' = app_signals + 1
    /\ CallStop("signal", app_task)
    /\ UNCHANGED <<app_pc, app_components, app_cleaned, app_steps>>
    /\ UNCHANGED not_app

\* stop() is through with the next component: its stop or cleanup has been
\* awaited if the attribute is set
APP_StopStep ==
    /\ app_stop \in DOMAIN StopOrder
    /\ LET c == StopOrder[app_stop]
       IN app_cleaned' = IF c \in app_components
                         THEN app_cleaned \cup {c} ELSE app_cleaned
    /\ app_stop' = app_stop + 1
    /\ app_pc' = IF app_stop = Len(StopOrder) /\ app_pc = "in_stop"
                 THEN "returned" ELSE app_pc
    /\ UNCHANGED <<app_running, app_components, app_task, app_steps, app_signals,
                   app_cause>>
    /\ UNCHANGED not_app

\* the monitor task runs: _monitor_trades
APP_MonitorStep ==
    /\ app_task \in {"created", "running"}
    /\ app_pc # "exited"
    /\ app_steps < MaxMonitorSteps
    /\ app_task' = "running"
    /\ app_steps' = app_steps + 1
    /\ UNCHANGED <<app_pc, app_running, app_components, app_stop, app_cleaned,
                   app_signals, app_cause>>
    /\ UNCHANGED not_app

\* main() returns after start(): asyncio.run cancels the tasks that are left
APP_Exit ==
    /\ app_pc = "returned"
    /\ app_pc' = "exited"
    /\ app_task' = IF app_task = "none" THEN "none" ELSE "cancelled"
    /\ app_stop' = IF app_stop \in DOMAIN StopOrder THEN 0 ELSE app_stop
    /\ UNCHANGED <<app_running, app_components, app_cleaned, app_steps,
                   app_signals, app_cause>>
    /\ UNCHANGED not_app

NextApp ==
    \/ APP_Resume
    \/ APP_Signal
    \/ APP_StopStep
    \/ APP_MonitorStep
    \/ APP_Exit

(***************************************************************************)
(* TradeMonitor._monitor_trades: WebSocket first, polling as fallback      *)
(***************************************************************************)
Bump(n, max) == IF n < max THEN n + 1 ELSE n

InitMonitor ==
    mon = [pc |-> "new", running |-> FALSE, ws_attempts |-> 0, messages |-> 0,
           polls |-> 0]

\* start(): running = True and the task of _monitor_trades is created; the
\* task runs to its first await, inside connect_websocket
MON_Start ==
    /\ mon.pc = "new"
    /\ mon' = [mon EXCEPT !.pc = "ws_connect", !.running = TRUE, !.ws_attempts = 1]
    /\ UNCHANGED not_mon

\* _monitor_websocket: connect_websocket returns and the task waits for a
\* message, or it raises WebSocketError, which _monitor_websocket re-raises
\* and _monitor_trades answers by awaiting _monitor_polling()
MON_WebSocket ==
    /\ mon.pc = "ws_connect"
    /\ \E connected \in BOOLEAN :
          mon' = [mon EXCEPT !.pc = IF connected THEN "ws_listen" ELSE "polling"]
    /\ UNCHANGED not_mon

\* `async for message in websocket`: a message is handled (its errors are
\* logged); the connection is closed normally, the iteration ends and the
\* reconnect delay starts; or the connection breaks, the iteration raises
\* and _monitor_trades falls back to polling
MON_Message ==
    /\ mon.pc = "ws_listen"
    /\ \E event \in {"message", "closed", "broken"} :
          mon' = CASE event = "message" ->
                        [mon EXCEPT !.messages = Bump(@, MaxMessages)]
                   [] event = "closed" -> [mon EXCEPT !.pc = "delay"]
                   [] OTHER -> [mon EXCEPT !.pc = "polling"]
    /\ UNCHANGED not_mon

\* one round of the loop of _monitor_polling up to its sleep: the fetch and
\* the analysis return, or raise and the handler inside the loop sleeps
MON_Poll ==
    /\ mon.pc = "polling"
    /\ mon' = [mon EXCEPT !.pc = "poll_sleep", !.polls = Bump(@, MaxPolls)]
    /\ UNCHANGED not_mon

\* the sleep of _monitor_polling ends and `while self.running` is tested:
\* the loop goes on while running; otherwise _monitor_polling returns and
\* the loop of _monitor_trades ends as well
MON_PollSleep ==
    /\ mon.pc = "poll_sleep"
    /\ mon' = [mon EXCEPT !.pc = IF mon.running THEN "polling" ELSE "done"]
    /\ UNCHANGED not_mon

\* the reconnect delay ends and `while self.running` is tested: the next
\* iteration of _monitor_trades awaits _monitor_websocket() again
MON_Delay ==
    /\ mon.pc = "delay"
    /\ mon' = IF mon.running
              THEN [mon EXCEPT !.pc = "ws_connect",
                               !.ws_attempts = Bump(@, MaxWsAttempts)]
              ELSE [mon EXCEPT !.pc = "done"]
    /\ UNCHANGED not_mon

\* stop(): running = False and the task is cancelled at the await it is
\* suspended in; CancelledError passes every `except Exception`
MON_Stop ==
    /\ mon.running
    /\ mon' = [mon EXCEPT !.running = FALSE, !.pc = "cancelled"]
    /\ UNCHANGED not_mon

NextMonitor ==
    \/ MON_Start
    \/ MON_WebSocket
    \/ MON_Message
    \/ MON_Poll
    \/ MON_PollSleep
    \/ MON_Delay
    \/ MON_Stop

(***************************************************************************)
(* HealthChecker._perform_health_check                                     *)
(***************************************************************************)
\* ConnectionManager.test_connectivity: get_markets raises when the API
\* cannot be reached (the markets cache, valid for 5 minutes, is stale at
\* the hourly check); the handler returns False, nothing is raised
TestConnectivity(api_up) == [raised |-> FALSE, value |-> api_up]

\* _check_api_connectivity: True unless test_connectivity raises
CheckApiConnectivity(api_up) == ~TestConnectivity(api_up).raised

\* _check_telegram_connectivity: the bot is initialized and get_me returns
CheckTelegramConnectivity(bot) == bot = "responsive"

InitHealth ==
    hc = [pc |-> "sleep", api_up |-> TRUE, api_ok |-> TRUE, bot |-> "responsive",
          telegram_ok |-> TRUE,
          message |-> "none", delivered |-> FALSE, checks |-> 0]

\* _perform_health_check up to the return of _check_api_connectivity
HC_CheckApi ==
    /\ hc.pc = "sleep"
    /\ hc.checks < MaxHealthChecks
    /\ \E api_up \in BOOLEAN :
          hc' = [hc EXCEPT !.pc = "telegram", !.api_up = api_up,
                           !.api_ok = CheckApiConnectivity(api_up),
                           !.message = "none", !.delivered = FALSE]
    /\ UNCHANGED std_processed
    /\ UNCHANGED not_hc

\* _perform_health_check up to the return of _check_telegram_connectivity
HC_CheckTelegram ==
    /\ hc.pc = "telegram"
    /\ \E bot \in {"uninitialized", "unresponsive", "responsive"} :
          hc' = [hc EXCEPT !.pc = "cleanup", !.bot = bot,
                           !.telegram_ok = CheckTelegramConnectivity(bot)]
    /\ UNCHANGED std_processed
    /\ UNCHANGED not_hc

\* _cleanup_old_trades, which returns True, and the report of the check
HC_Report ==
    /\ hc.pc = "cleanup"
    /\ std_processed' = ClearIfOversize(std_processed, MaxProcessed)
    /\ \E sent \in BOOLEAN :
          hc' = [hc EXCEPT !.pc = "sleep",
                           !.message = IF hc.api_ok /\ hc.telegram_ok
                                       THEN "Health check passed"
                                       ELSE "Health check failed",
                           !.delivered = sent,
                           !.checks = @ + 1]
    /\ UNCHANGED not_hc

NextHealth ==
    \/ HC_CheckApi
    \/ HC_CheckTelegram
    \/ HC_Report

(***************************************************************************)
(* DataAPIClient: the trader cache                                         *)
(***************************************************************************)
Traders == 1..NumTraders
\* None, for _last_cache_update and for the time of a fetch
NoTime == -1

InitDataApi ==
    dac = [now |-> 0, trader_cache |-> {}, last_cache_update |-> NoTime,
           fetched |-> [a \in Traders |-> NoTime],
           last |-> [address |-> 0, upstream |-> FALSE, since_fetch |-> NoTime]]

\* _is_cache_valid
IsCacheValid(c, a) ==
    /\ a \in c.trader_cache
    /\ c.last_cache_update # NoTime
    /\ c.now - c.last_cache_update < TraderCacheTtlMinutes

\* get_trader_info(a): a valid entry is returned; otherwise the trades of the
\* trader are fetched and, unless there are none, the info is stored and
\* _last_cache_update is set if it is None
DAC_GetTraderInfo(a) ==
    /\ LET since == IF dac.fetched[a] = NoTime THEN NoTime
                    ELSE dac.now - dac.fetched[a]
       IN IF IsCacheValid(dac, a)
          THEN dac' = [dac EXCEPT !.last = [address |-> a, upstream |-> FALSE,
                                            since_fetch |-> since]]
          ELSE \E found \in BOOLEAN :
                 dac' = [dac EXCEPT
                           !.trader_cache = IF found THEN @ \cup {a} ELSE @,
                           !.last_cache_update =
                               IF found /\ @ = NoTime THEN dac.now ELSE @,
                           !.fetched[a] = IF found THEN dac.now ELSE @,
                           !.last = [address |-> a, upstream |-> TRUE,
                                     since_fetch |-> since]]
    /\ UNCHANGED not_dac

\* cleanup_cache
DAC_CleanupCache ==
    /\ dac.last_cache_update # NoTime
    /\ dac.now - dac.last_cache_update > TraderCacheTtlMinutes
    /\ dac' = [dac EXCEPT !.trader_cache = {}, !.last_cache_update = NoTime]
    /\ UNCHANGED not_dac

\* time passes
DAC_Tick ==
    /\ dac.now + TraderTick <= MaxTraderNow
    /\ dac' = [dac EXCEPT !.now = @ + TraderTick]
    /\ UNCHANGED not_dac

NextDataApi ==
    \/ \E a \in Traders : DAC_GetTraderInfo(a)
    \/ DAC_CleanupCache
    \/ DAC_Tick

(***************************************************************************)
(* LargeTradeMonitor._process_trade: the filters                           *)
(***************************************************************************)
\* market names: one of each kind the filter tells apart; 'Unknown Market'
\* is the default when the Gamma lookup finds nothing
MarketNames == {"Fed cut in March?", "Bitcoin Up or Down - 5PM", "Ether Up Or Down",
                "Unknown Market"}

\* "Up or Down" in market_name or "Up Or Down" in market_name
FilteredMarket(name) == name \in {"Bitcoin Up or Down - 5PM", "Ether Up Or Down"}

\* unique_markets_count of the taker: NoTrader when get_trader_info returns
\* None (or the trade has no taker)
NoTrader == -1
TraderMarkets == {NoTrader, 4, 5}

\* the test of the taker filter
ExperiencedTaker(markets) == markets # NoTrader /\ markets >= 5

\* the inputs of _process_trade for a trade with a new hash: the name after
\* enrich_trade_data, the taker's market count, whether takerAssetId is set,
\* and the title the fallback lookup of the token would give
TradeInputs == [market : MarketNames, markets : TraderMarkets, asset : BOOLEAN,
                fallback : MarketNames]

\* _process_trade after the hash is marked, lines 90-151.  The fallback
\* calls self.data_api_client.get_market_by_token: DataAPIClient has no such
\* attribute (the method is GammaClient's), so the call raises
\* AttributeError, which the handler of line 153 logs.  format_trade_usd is
\* taken to return, as the mock of the test declares it.
ProcessOutcome(in) ==
    IF FilteredMarket(in.market) THEN "filtered"
    ELSE IF ExperiencedTaker(in.markets) THEN "filtered"
    ELSE IF in.market = "Unknown Market" /\ in.asset THEN "raise"
    ELSE "send"

NoInputs == [market |-> "Unknown Market", markets |-> NoTrader, asset |-> FALSE,
             fallback |-> "Unknown Market"]

InitProcess ==
    lt = [processed |-> {}, hash |-> NoHash, in |-> NoInputs, outcome |-> "none",
          sends |-> 0]

\* _process_trade(trade)
LT_ProcessTrade ==
    /\ \E h \in (1..NumProcessHashes) \cup {NoHash}, in \in TradeInputs :
          IF h = NoHash
          THEN lt' = [lt EXCEPT !.hash = h, !.in = NoInputs, !.outcome = "no_hash",
                                !.sends = 0]
          ELSE IF Seen(lt.processed, h)
          THEN lt' = [lt EXCEPT !.hash = h, !.in = NoInputs, !.outcome = "duplicate",
                                !.sends = 0]
          ELSE lt' = [processed |-> MarkSeen(lt.processed, h), hash |-> h, in |-> in,
                      outcome |-> ProcessOutcome(in),
                      sends |-> IF ProcessOutcome(in) = "send" THEN 1 ELSE 0]
    /\ UNCHANGED not_lt

\* start(): the ledger is cleared when it holds more than the maximum
LT_Clear ==
    /\ lt.processed # {}
    /\ ClearIfOversize(lt.processed, MaxProcessed) = {}
    /\ lt' = [lt EXCEPT !.processed = {}]
    /\ UNCHANGED not_lt

NextProcess ==
    \/ LT_ProcessTrade
    \/ LT_Clear

(***************************************************************************)
(* EnhancedTradeMonitor._analyze_suspicious_patterns                       *)
(***************************************************************************)
\* the large trades of the last 6 hours, by wallet: every trade has one
\* maker, trade t of wallet w is <<w, t>>
LargeTrades == (1..NumPatternWallets) \X (1..NumLargeTrades)
TradesOf(large_trades, w) == {t \in large_trades : t[1] = w}

\* what _analyze_wallet_behavior returns: None, or an analysis that is
\* suspicious (is_new_wallet or trading_frequency < 0.1) or not
PatternProfiles == {"none", "suspicious", "ordinary"}

\* _analyze_multi_trade_pattern for the wallets with two or more large
\* trades: the (wallet, trades) pairs for which _send_enhanced_alert is
\* called
MultiTradeAlerts(large_trades, profile) ==
    {<<w, TradesOf(large_trades, w)>> : w \in
        {v \in 1..NumPatternWallets :
            /\ Cardinality(TradesOf(large_trades, v)) >= 2
            /\ profile[v] = "suspicious"}}

InitPatterns ==
    sp = [rounds |-> 0, large_trades |-> {}, sent |-> {}]

\* one round of _monitor_subgraph: _analyze_suspicious_patterns fetches the
\* large trades of the last 6 hours and sends a MULTI_LARGE_TRADES alert
\* for every wallet that qualifies
SP_AnalyzeSuspiciousPatterns ==
    /\ sp.rounds < MaxPatternRounds
    /\ \E large_trades \in SUBSET LargeTrades,
          profile \in [1..NumPatternWallets -> PatternProfiles] :
          sp' = [rounds |-> sp.rounds + 1, large_trades |-> large_trades,
                 sent |-> sp.sent \cup
                     (MultiTradeAlerts(large_trades, profile) \X {sp.rounds + 1})]
    /\ UNCHANGED not_sp

\* get_large_trades raises: the handler logs and the round sends nothing
SP_FetchFails ==
    /\ sp.rounds < MaxPatternRounds
    /\ sp' = [sp EXCEPT !.rounds = @ + 1, !.large_trades = {}]
    /\ UNCHANGED not_sp

NextPatterns ==
    \/ SP_AnalyzeSuspiciousPatterns
    \/ SP_FetchFails

Init ==
    /\ InitLarge
    /\ InitService
    /\ InitTradeMonitor
    /\ InitEnhanced
    /\ InitInsider
    /\ InitBreaker
    /\ InitRetry
    /\ InitStop
    /\ InitRate
    /\ InitKeys
    /\ InitApp
    /\ InitMonitor
    /\ InitHealth
    /\ InitDataApi
    /\ InitProcess
    /\ InitPatterns

SpecLarge == Init /\ [][NextLarge]_vars

SpecService == Init /\ [][NextService]_vars

SpecTradeMonitor == Init /\ [][NextTradeMonitor]_vars

SpecEnhanced == Init /\ [][NextEnhanced]_vars

SpecWallet == Init /\ [][NextWallet]_vars

SpecInsider == Init /\ [][NextInsider]_vars

SpecBreaker == Init /\ [][NextBreaker]_vars

SpecRetry == Init /\ [][NextRetry]_vars

SpecApp == Init /\ [][NextApp]_vars

SpecKeys == Init /\ [][NextKeys]_vars

SpecRate == Init /\ [][NextRate]_vars

SpecStop == Init /\ [][NextStop]_vars

\* the event loop resumes every task that is ready: a cancelled task, and
\* stop() once the task it awaits has ended
SpecStopFair ==
    /\ SpecStop
    /\ \A t \in Tasks : WF_vars(ST_Resume(t))
    /\ WF_vars(ST_StopAwait)

SpecMonitor == Init /\ [][NextMonitor]_vars

SpecHealth == Init /\ [][NextHealth]_vars

SpecDataApi == Init /\ [][NextDataApi]_vars

SpecProcess == Init /\ [][NextProcess]_vars

SpecPatterns == Init /\ [][NextPatterns]_vars

\* the event loop resumes the monitor task whenever what it awaits is
\* over: a connection attempt, a poll, a sleep
SpecMonitorFair ==
    /\ SpecMonitor
    /\ WF_vars(MON_WebSocket)
    /\ WF_vars(MON_Poll)
    /\ WF_vars(MON_PollSleep)
    /\ WF_vars(MON_Delay)

(***************************************************************************)
(* Claims                                                                  *)
(***************************************************************************)

\* C1 (as stated): over any sequence of LargeTradeMonitor polling rounds,
\* send_message is invoked at most once for a transaction hash.
C1_AtMostOneSendEver ==
    \A h \in Hashes : ltm_sends[h] <= 1

\* C1 (amended): between two clears of processed_tx_hashes, send_message is
\* invoked at most once for a transaction hash, however often the upstream
\* returns it.
C1_AtMostOneSendBetweenClears ==
    \A h \in Hashes : ltm_sends_epoch[h] <= 1

\* C1 witness: a hash that was alerted on was returned again and dropped.
C1_Witness ==
    \E h \in Hashes : ltm_sends_epoch[h] = 1 /\ h \in ltm_dropped

\* C2: in every reachable state the number of entries of a dedup ledger is at
\* most the configured maximum (here LargeTradeMonitor.processed_tx_hashes
\* against the 10000 of start()).
C2_LedgerWithinMax ==
    Cardinality(processed_tx_hashes) <= MaxProcessed

\* C3: right after the insertion of maxSize + 1 distinct keys the
\* first-inserted key is no longer seen.
C3_OverflowForgetsFirstKey ==
    (/\ tas_submits = MaxProcessed + 1
     /\ Len(tas_order) = MaxProcessed + 1
     /\ tas_last_marked = tas_order[MaxProcessed + 1])
    => ~IsTradeProcessed(tas_processed, tas_order[1])

\* C4: a trade's key is in the dedup ledger before any detection step of the
\* trade runs: every trade that process_trade_analysis has evaluated, and
\* whose entry no cleanup has removed, is marked as processed.
C4_KeyMarkedBeforeDetection ==
    \A h \in Hashes :
        (tas_evals[h] > 0 /\ h \notin tas_removed)
            => IsTradeProcessed(tas_processed, h)

\* C5: an exception raised while analysing one trade of a polled batch is
\* contained to that trade: when the round is over, no new trade of the
\* batch has been left unanalysed.
C5_FailureContainedToTrade ==
    tm_pc = "sleep" => tm_skipped = 0

\* C6: of the traditional and the subgraph task, at most one proceeds past
\* the dedup check for a transaction hash: no hash is evaluated twice and the
\* two tasks never evaluate the same hash at the same time.
C6_AtMostOneTaskProceeds ==
    /\ \A h \in EtmHashes : etm_evals[h] <= 1
    /\ etm_cur["trad"].hash # NoHash => etm_cur["trad"].hash # etm_cur["sub"].hash

\* C6 witness: while one task is still evaluating a hash, the other task has
\* received the same hash and dropped it.
C6_Witness ==
    \E t \in Tasks :
        /\ etm_cur[t].hash # NoHash
        /\ etm_pc[t] # "idle"
        /\ etm_cur[t].hash \in etm_dropped
        /\ etm_evals[etm_cur[t].hash] = 1

\* C7: a wallet lookup whose cache check finds an entry computed less than
\* 30 minutes earlier returns that entry and makes no call of
\* get_user_activity.
C7_FreshEntryServedFromCache ==
    \A t \in Tasks :
        (/\ etm_lk[t].wallet # 0
         /\ etm_lk[t].prior # NoProfile
         /\ etm_lk[t].start - etm_lk[t].prior.cache_time < CacheTtlMinutes)
        => (/\ etm_lk[t].done
            /\ etm_lk[t].result = etm_lk[t].prior
            /\ etm_lk[t].fetches = 0)

\* C7 witness: a lookup made after time has passed, but less than 30 minutes
\* after the cached computation, was served from the cache.
C7_Witness ==
    \E t \in Tasks :
        /\ etm_lk[t].done
        /\ etm_lk[t].prior # NoProfile
        /\ etm_lk[t].start > etm_lk[t].prior.cache_time
        /\ etm_lk[t].start - etm_lk[t].prior.cache_time < CacheTtlMinutes
        /\ etm_lk[t].result = etm_lk[t].prior
        /\ wallet_cache[etm_lk[t].wallet] = etm_lk[t].prior

C9_SingleFetchPerWallet ==
    (/\ etm_pc["trad"] \in {"activity", "positions"}
     /\ etm_pc["sub"] \in {"activity", "positions"})
    => etm_lk["trad"].wallet # etm_lk["sub"].wallet

\* C10: when the wallet lookup of a trade has ended without a profile, the
\* analysis of that trade has returned None (no alert) and the task is back
\* between trades.
C10_NoProfileNoAlert ==
    \A t \in Tasks :
        (etm_lk[t].done /\ etm_lk[t].result = NoProfile)
            => (etm_out[t] = "none" /\ etm_pc[t] = "idle")

\* C10 witness: a lookup that fetched upstream ended without a profile for a
\* large trade and the analysis returned None.
C10_Witness ==
    \E t \in Tasks :
        /\ etm_lk[t].done
        /\ etm_lk[t].fetches = 1
        /\ etm_lk[t].result = NoProfile
        /\ etm_out[t] = "none"

PatternTypes(patterns) == {p.type : p \in patterns}

\* C11: when the market-data lookup fails, _get_market_context returns the
\* empty context instead of raising, and the evaluation goes on: no
\* expiring-market match, the wallet-based rules are still evaluated (a new
\* wallet with a trade of at least twice the threshold matches
\* NEW_WALLET_LARGE_TRADE, a one-sided wallet matches IMBALANCED_TRADING), and
\* a matched rule still yields an alert.
C11_MarketFailureContinues ==
    (ia_pc = "done" /\ ia_market = "failed") =>
        /\ ia_context = EmptyContext
        /\ "EXPIRING_MARKET_ACTIVITY" \notin PatternTypes(ia_detect.patterns)
        /\ (ia_wallet.is_new_wallet
            /\ CalculateTradeSizeUsd(ia_trade) >= 2 * MinTradeSizeUsd)
           => "NEW_WALLET_LARGE_TRADE" \in PatternTypes(ia_detect.patterns)
        /\ (ia_wallet.total_activities > 0
            /\ CountType(ia_activities, "SELL") = 0
            /\ CountType(ia_activities, "BUY") > 0)
           => "IMBALANCED_TRADING" \in PatternTypes(ia_detect.patterns)
        /\ (ia_detect.patterns # {}) => ia_result = "alert"

\* C11 witness: the market lookup failed and the call returned an alert from
\* a wallet-based rule.
C11_Witness ==
    /\ ia_pc = "done"
    /\ ia_market = "failed"
    /\ ia_result = "alert"
    /\ "NEW_WALLET_LARGE_TRADE" \in PatternTypes(ia_detect.patterns)

\* C12: an alert is returned only with a confidence of at least 30: every
\* call that returned an alert matched a pattern and its (returned, rounded)
\* score is 30.0 or more, and a call that matched patterns with a score below
\* 30.0 returned no alert.
C12_AlertOnlyAtThreshold ==
    (ia_pc = "done") =>
        /\ (ia_result = "alert") =>
              (ia_detect.patterns # {} /\ ia_risk.score >= 300)
        /\ (ia_detect.patterns # {} /\ ia_risk.score < 300) => ia_result = "none"

\* C12 witness: an alert returned with a score of exactly 30.0.
C12_Witness ==
    /\ ia_pc = "done"
    /\ ia_result = "alert"
    /\ ia_risk.score = 300

\* the scorer has been applied to a non-empty list of matches
Scored ==
    /\ ia_pc \in {"done", "applied"}
    /\ ~ia_detect.raised
    /\ ia_detect.patterns # {}

\* C13 (as stated): for a non-empty list of matches the returned score is in
\* [0, 100] and the tier agrees with the returned score, rounded to one
\* decimal: CRITICAL iff >= 80, HIGH iff in [60, 80), MEDIUM iff in [40, 60),
\* LOW iff < 40.
C13_TierAgreesWithScore ==
    Scored =>
        /\ ia_risk.score >= 0 /\ ia_risk.score <= 1000
        /\ (ia_risk.level = "CRITICAL") <=> (ia_risk.score >= 800)
        /\ (ia_risk.level = "HIGH") <=> (ia_risk.score >= 600 /\ ia_risk.score < 800)
        /\ (ia_risk.level = "MEDIUM") <=> (ia_risk.score >= 400 /\ ia_risk.score < 600)
        /\ (ia_risk.level = "LOW") <=> (ia_risk.score < 400)

\* one more match of a rule that is not in the list, with the rule's base
\* confidence (40, the lowest, for UNUSUALLY_LARGE_TRADE)
ExtraMatches(patterns) ==
    {p \in {Pattern("NEW_WALLET_LARGE_TRADE", Rat(60, 1), "HIGH"),
            Pattern("UNUSUALLY_LARGE_TRADE", Rat(40, 1), "MEDIUM"),
            Pattern("EXPIRING_MARKET_ACTIVITY", Rat(50, 1), "MEDIUM"),
            Pattern("SUDDEN_ACTIVITY", Rat(45, 1), "MEDIUM"),
            Pattern("CONCENTRATED_TRADING", Rat(35, 1), "LOW"),
            Pattern("IMBALANCED_TRADING", Rat(30, 1), "LOW")} :
        p.type \notin PatternTypes(patterns)}

ScoreOf(patterns) == CalculateRiskScore(patterns, ia_trade, ia_wallet).score

\* the confidence of p is at least the average confidence of patterns
AtLeastAverage(p, patterns) ==
    LET total == SumConfidence(patterns)
    IN p.confidence.n * total.d * Cardinality(patterns) >= total.n * p.confidence.d

\* C14 (as stated): for the same trade and wallet analysis, adding one more
\* match with a positive base confidence to a non-empty list never decreases
\* the returned score.
C14_ScoreMonotone ==
    Scored =>
        \A p \in ExtraMatches(ia_detect.patterns) :
            ScoreOf(ia_detect.patterns \cup {p}) >= ia_risk.score

\* C14 (amended): adding one more match whose base confidence is at least the
\* average base confidence of the list never decreases the returned score.
C14_ScoreMonotoneAboveAverage ==
    Scored =>
        \A p \in ExtraMatches(ia_detect.patterns) :
            AtLeastAverage(p, ia_detect.patterns) =>
                ScoreOf(ia_detect.patterns \cup {p}) >= ia_risk.score

\* C14 witness: a scored list below the cap to which a match of at least its
\* average confidence can be added, raising the score.
C14_Witness ==
    /\ Scored
    /\ \E p \in ExtraMatches(ia_detect.patterns) :
          /\ AtLeastAverage(p, ia_detect.patterns)
          /\ ScoreOf(ia_detect.patterns \cup {p}) > ia_risk.score

\* the rules whose trigger holds for ia_trade, ia_wallet and ia_context, with
\* the confidence and severity each carries, written from the six triggers
TriggeredRules ==
    LET usd == CalculateTradeSizeUsd(ia_trade)
        w == ia_wallet
        avg == w.average_trade_size
        Rule(cond, type, confidence, severity) ==
            IF cond THEN {Pattern(type, confidence, severity)} ELSE {}
    IN Rule(w.is_new_wallet /\ usd >= 2 * MinTradeSizeUsd,
            "NEW_WALLET_LARGE_TRADE", Rat(60, 1), "HIGH")
       \cup Rule(avg.n > 0 /\ usd * avg.d >= 5 * avg.n,
                 "UNUSUALLY_LARGE_TRADE",
                 IF 10 * usd * avg.d - 10 * avg.n >= 80 * avg.n THEN Rat(80, 1)
                 ELSE Rat(10 * usd * avg.d - 10 * avg.n, avg.n),
                 IF usd * avg.d >= 10 * avg.n THEN "HIGH" ELSE "MEDIUM")
       \cup Rule(ia_context.is_expiring_soon /\ usd >= MinTradeSizeUsd,
                 "EXPIRING_MARKET_ACTIVITY", Rat(50, 1), "MEDIUM")
       \cup Rule(10 * w.trading_frequency.n < w.trading_frequency.d
                 /\ usd >= MinTradeSizeUsd,
                 "SUDDEN_ACTIVITY", Rat(45, 1), "MEDIUM")
       \cup Rule(Cardinality({ia_activities[i].market : i \in 1..Len(ia_activities)}) <= 2
                 /\ 2 * usd >= 3 * MinTradeSizeUsd,
                 "CONCENTRATED_TRADING", Rat(35, 1), "LOW")
       \cup Rule(10 * w.buy_sell_ratio.n >= 9 * w.buy_sell_ratio.d
                 \/ 10 * w.buy_sell_ratio.n <= w.buy_sell_ratio.d,
                 "IMBALANCED_TRADING", Rat(30, 1), "LOW")

\* C15: for every trade, wallet analysis and market context, pattern
\* detection returns exactly the rules whose trigger holds, each with its
\* confidence and severity.
C15_ExactlyTriggeredRules ==
    (ia_pc = "applied") =>
        (~ia_detect.raised /\ ia_detect.patterns = TriggeredRules)

\* a call, or a direct application of the detection, for a trade below the
\* minimum trade size with a wallet analysis that is not flagged new
BelowThresholdNotNew ==
    /\ ia_pc \in {"done", "applied"}
    /\ ia_wallet.obtained
    /\ ~ia_wallet.is_new_wallet
    /\ CalculateTradeSizeUsd(ia_trade) < MinTradeSizeUsd

C17_NewWalletLargeTradeAlerts ==
    (/\ ia_pc \in {"done", "applied"}
     /\ ia_wallet.is_new_wallet
     /\ CalculateTradeSizeUsd(ia_trade) >= 2 * MinTradeSizeUsd) =>
        /\ "NEW_WALLET_LARGE_TRADE" \in PatternTypes(ia_detect.patterns)
        /\ ia_risk.score >= 600
        /\ ia_risk.level \in {"HIGH", "CRITICAL"}
        /\ (ia_pc = "done") => ia_result = "alert"

\* C17 witness: a call for such a trade returned an alert below the cap with
\* three other rules matched as well.
C17_Witness ==
    /\ ia_pc = "done"
    /\ ia_wallet.is_new_wallet
    /\ CalculateTradeSizeUsd(ia_trade) >= 2 * MinTradeSizeUsd
    /\ ia_result = "alert"
    /\ Cardinality(ia_detect.patterns) >= 4
    /\ ia_risk.score < 1000

\* C18: a rule whose quantity has a zero denominator is skipped:
\* IMBALANCED_TRADING is not matched for a wallet with no BUY/SELL activity,
\* SUDDEN_ACTIVITY is not matched when the time span of the activities is
\* zero.
C18_ZeroDenominatorRuleSkipped ==
    (ia_pc \in {"done", "applied"} /\ ia_activities # <<>>) =>
        /\ (CountType(ia_activities, "BUY") + CountType(ia_activities, "SELL") = 0)
           => "IMBALANCED_TRADING" \notin PatternTypes(ia_detect.patterns)
        /\ (\A i, j \in 1..Len(ia_activities) :
                ia_activities[i].hours_ago = ia_activities[j].hours_ago)
           => "SUDDEN_ACTIVITY" \notin PatternTypes(ia_detect.patterns)

\* C19: the wallet analysis returns no profile whenever get_user_activity
\* returned zero records, whatever else is known of the wallet: a lookup that
\* fetched and returned a profile fetched at least one activity.
C19_NoActivityNoProfile ==
    \A t \in Tasks :
        (etm_lk[t].done /\ etm_lk[t].fetches > 0 /\ etm_lk[t].result # NoProfile)
            => etm_lk[t].result.total_activities > 0

\* C20: a wallet with zero activities has a profile with is_new_wallet false
\* and trading_frequency 0, and pattern detection and scoring on that profile
\* complete without raising.
C20_EmptyProfileDetectsNormally ==
    (ia_pc \in {"done", "applied"} /\ ia_wallet.obtained /\ ia_activities = <<>>) =>
        /\ ~ia_wallet.is_new_wallet
        /\ ia_wallet.trading_frequency = Rat(0, 1)
        /\ ~ia_detect.raised


(***************************************************************************)
(* api_circuit_breaker                                                     *)
(***************************************************************************)
\* C21: the breaker is OPEN only after failure_threshold (3) failures of the
\* expected exception types with no successful call in between, it is never
\* CLOSED with that many behind it, and failure_count is the number of such
\* failures since the last success: a success has set it back to zero.
C21_OpensAtThreshold ==
    /\ api_circuit_breaker.state = "OPEN" => cb_streak >= 3
    /\ api_circuit_breaker.state = "CLOSED" => cb_streak < 3
    /\ api_circuit_breaker.failure_count = cb_streak

\* the breaker has opened at the third failure in a row, after a call that
\* succeeded
C21_Witness ==
    /\ api_circuit_breaker.state = "OPEN"
    /\ cb_streak = 3
    /\ \E c \in Tasks : cb_result[c] = "success"


\* C22: while the breaker is OPEN and no more than the timeout (30 s) has
\* passed since the last failure, no step admits a call to the upstream, a
\* rejected call leaves failure_count and last_failure_time as they were,
\* and the state stays OPEN, whatever calls admitted earlier do on returning.
C22_StaysOpenForTimeout ==
    [][(/\ api_circuit_breaker.state = "OPEN"
        /\ cb_now - api_circuit_breaker.last_failure_time <= BreakerTimeout)
       => /\ api_circuit_breaker'.state = "OPEN"
          /\ \A c \in Tasks : cb_pc[c] = "idle" => cb_pc'[c] = "idle"
          /\ cb_pc' = cb_pc =>
                /\ api_circuit_breaker'.failure_count = api_circuit_breaker.failure_count
                /\ api_circuit_breaker'.last_failure_time
                     = api_circuit_breaker.last_failure_time]_vars

\* C23: when the call that moved the breaker to HALF_OPEN returns or raises,
\* a success leaves the breaker CLOSED with failure_count 0, a failure leaves
\* it OPEN, and in no case is it left HALF_OPEN.
C23_ProbeSettlesBreaker ==
    [][\A c \in Tasks :
         (cb_pc[c] = "call" /\ cb_probe[c] /\ cb_pc'[c] = "idle") =>
           /\ cb_result'[c] = "success" =>
                /\ api_circuit_breaker'.state = "CLOSED"
                /\ api_circuit_breaker'.failure_count = 0
           /\ cb_result'[c] = "failure" => api_circuit_breaker'.state = "OPEN"
           /\ api_circuit_breaker'.state # "HALF_OPEN"]_vars


(***************************************************************************)
(* retry_async and get_recent_trades                                       *)
(***************************************************************************)
\* C24: within one call of get_recent_trades no upstream request is attempted
\* more than 3 times, neither GET /trades nor the GET /markets of the nested
\* get_markets.
C24_AtMostThreeRequests ==
    /\ rt_requests.trades <= 3
    /\ rt_requests.markets <= 3

\* C27 (REST polling path): when get_recent_trades has received a /trades
\* response and its call has ended otherwise than by an upstream failure,
\* every record of the response that has its fields and a parseable price
\* is among the trades it returned.
C27_OtherRecordsConverted ==
    (rt_pc = "idle" /\ rt_result \in {"ok", "parse_error"}) =>
        \A i \in DOMAIN rt_raw :
            ~Float(rt_raw[i].price).raised =>
                \E j \in DOMAIN rt_trades : rt_trades[j] = ConvertRecord(rt_raw[i])


(***************************************************************************)
(* EnhancedTradeMonitor.stop                                               *)
(***************************************************************************)
\* C25: after stop() has cancelled a monitor task, that task starts no
\* further attempt of a fetch and analyses no further trade (so it sends no
\* further alert), the task ends cancelled when it is next resumed, and a
\* stop() that has been called eventually returns.
C25_CancellationPropagates ==
    /\ [](\A t \in Tasks : st_after[t] = 0)
    /\ [](\A t \in Tasks :
            (st_cancelled_at[t] \notin {"none", "cancelled", "finished"} /\ ~st_cancel[t])
                => st_pc[t] = "cancelled")
    /\ (st_stop # "not_called") ~> (st_stop = "returned")

\* stop() has returned after cancelling one task in the sleep between two
\* attempts of retry_async and the other while it awaited its fetch
C25_Witness ==
    /\ st_stop = "returned"
    /\ st_cancelled_at["trad"] = "backoff"
    /\ st_cancelled_at["sub"] = "fetch"


(***************************************************************************)
(* rate_limit_async                                                        *)
(***************************************************************************)
\* C26: any two invocations of the function behind rate_limit_async(N)
\* start at least 1/N seconds apart, whether the callers are sequential or
\* concurrent.
C26_StartsSpaced ==
    \A i, j \in DOMAIN rl_starts :
        i < j => rl_starts[j] - rl_starts[i] >= MinIntervalTicks


(***************************************************************************)
(* Notifier failures and dedup keys                                        *)
(***************************************************************************)
\* C28 as stated: after send_message has failed for a trade's alert,
\* send_message is never invoked for that trade's key again, whatever is
\* redelivered later.
C28_NeverSentAgain == ~dk_resent

\* C28 amended: a key whose delivery failed stays in the ledger, and
\* send_message is not invoked for it again, until the ledger is cleared.
C28_NotSentAgainUntilClear ==
    ~dk_cleared =>
        /\ \A key \in dk_failed : key \in dk_ledger
        /\ ~dk_resent

\* a delivery has failed, the same trade has been delivered again and
\* dropped, and the monitor has gone on
C28_Witness ==
    /\ ~dk_cleared
    /\ dk_monitor = "enhanced"
    /\ dk_last.outcome = "dropped"
    /\ TradeKey("enhanced", dk_last.record) \in dk_failed

\* C29: in each of the three ledgers a record passes the dedup check and is
\* evaluated unless a record with the same transaction hash, maker and taker
\* has been delivered before; records that share the hash and differ in
\* maker or taker do not suppress each other.
C29_SameHashOtherPartiesPass ==
    dk_last.fresh => dk_last.outcome # "dropped"


(***************************************************************************)
(* PolymarketInsiderApp                                                    *)
(***************************************************************************)
\* C30: once start() has started the trade monitor, stop() does not run
\* until a signal (interrupt or stop request) has been handled or a call
\* has raised: it is never the plain completion of the monitoring start-up
\* that makes stop() run.
C30_StopOnlyOnInterruptOrError == app_cause # "return"


\* C38: when start() has returned and no stop() is in progress, every
\* component that start() had initialized has been cleaned up by the stop()
\* of the finally clause, also when the initialization raised part way.
C38_FinallyCleansInitialized ==
    (app_pc = "returned" /\ app_stop \notin DOMAIN StopOrder) =>
        app_components \subseteq app_cleaned


(***************************************************************************)
(* Claims about the shared circuit breaker and its two callers             *)
(***************************************************************************)
\* C36: a call to one endpoint is rejected only because of that endpoint's
\* own failures.  The traditional task calls the ConnectionManager methods
\* and the subgraph task the GoldskyClient methods: a caller that is idle
\* and whose own endpoint has never been called, or whose last call to it
\* succeeded, is not rejected by the breaker.
C36_RejectedOnlyForOwnEndpoint ==
    [][\A c \in Tasks :
          (cb_pc[c] = "idle" /\ cb_result[c] \in {"none", "success"}) =>
              cb_result'[c] # "rejected"]_vars

\* C37: while the breaker is HALF_OPEN and the probe call is in flight, no
\* other call is admitted to the wrapped function.
C37_OneProbeInHalfOpen ==
    [][(/\ api_circuit_breaker.state = "HALF_OPEN"
        /\ \E p \in Tasks : cb_pc[p] = "call" /\ cb_probe[p]) =>
           \A c \in Tasks : cb_pc[c] = "idle" => cb_pc'[c] = "idle"]_vars


(***************************************************************************)
(* Claims about the confidence gate of InsiderDetector                     *)
(***************************************************************************)
\* C34: a non-empty list of matches scores at least 30.0, so the confidence
\* gate drops no call that reached scoring: a call returns an alert iff its
\* detection produced a non-empty list of matches.
C34_AlertIffPatternMatched ==
    /\ Scored => ia_risk.score >= MinConfidence * 10
    /\ (ia_pc = "done") =>
          ((ia_result = "alert") <=> (~ia_detect.raised /\ ia_detect.patterns # {}))

\* C34 witness: a call whose only match is IMBALANCED_TRADING (the lowest
\* base confidence) with multiplier 1 returned an alert.
C34_Witness ==
    /\ ia_pc = "done"
    /\ PatternTypes(ia_detect.patterns) = {"IMBALANCED_TRADING"}
    /\ Multiplier(ia_detect.patterns, ia_trade, ia_wallet) = 20
    /\ ia_result = "alert"


(***************************************************************************)
(* Claims about the polling watermark of TradeMonitor                      *)
(***************************************************************************)
\* C35: no trade is lost to the watermark: a trade of a poll response whose
\* timestamp is later than the initial watermark and that the filter of
\* this round drops has been passed to _analyze_trade in an earlier round
\* (the watermark never decreases, so a trade dropped once is dropped in
\* every later round).
C35_NoTradeLostToWatermark ==
    tm_poll.dropped \subseteq tm_poll.analysed


(***************************************************************************)
(* Claims about the fallback to polling                                    *)
(***************************************************************************)
\* C40: once the monitor has fallen back to polling, it attempts the
\* WebSocket connection again unless it is stopped first.
C40_WebSocketRetriedAfterFallback ==
    (mon.pc = "polling") ~> (mon.pc = "ws_connect" \/ ~mon.running)


(***************************************************************************)
(* Claims about HealthChecker                                              *)
(***************************************************************************)
\* C31: the API connectivity check returns true iff the API is reachable,
\* and a health check made while the API cannot be reached reports
\* 'Health check failed'.
C31_UnreachableApiFailsCheck ==
    /\ (hc.pc # "sleep") => (hc.api_ok <=> hc.api_up)
    /\ (hc.pc = "sleep" /\ hc.checks > 0 /\ ~hc.api_up) =>
          (~hc.api_ok /\ hc.message = "Health check failed")


(***************************************************************************)
(* Claims about the trader cache of DataAPIClient                          *)
(***************************************************************************)
\* C32: a get_trader_info call for an address made less than 30 minutes
\* after the fetch that cached the info of that address is served from the
\* cache, without an upstream call.
C32_CachedForTtlPerAddress ==
    (dac.last.since_fetch # NoTime /\ dac.last.since_fetch < TraderCacheTtlMinutes) =>
        ~dac.last.upstream


(***************************************************************************)
(* Claims about the filters of LargeTradeMonitor                           *)
(***************************************************************************)
\* the market name of a trade: the name of the Gamma lookup or, when that
\* is 'Unknown Market' and the trade has a taker asset, the title of the
\* fallback lookup
EffectiveMarket(in) ==
    IF in.market = "Unknown Market" /\ in.asset THEN in.fallback ELSE in.market

\* C33: no alert is sent for a trade of an 'Up or Down' / 'Up Or Down'
\* market nor for a taker known to have traded in 5 or more markets; every
\* other trade with a new transaction hash results in exactly one
\* send_message call and its hash is recorded as processed.
C33_FilteredOrSentOnce ==
    (lt.outcome \notin {"none", "no_hash", "duplicate"}) =>
        /\ lt.hash \in lt.processed
        /\ IF FilteredMarket(EffectiveMarket(lt.in)) \/ ExperiencedTaker(lt.in.markets)
           THEN lt.sends = 0
           ELSE lt.sends = 1


(***************************************************************************)
(* Claims about the MULTI_LARGE_TRADES alerts                              *)
(***************************************************************************)
\* C39: over the rounds of the subgraph loop a MULTI_LARGE_TRADES alert is
\* sent at most once for the same wallet and the same set of large trades.
C39_MultiAlertAtMostOnce ==
    \A x, y \in sp.sent : x[1] = y[1] => x[2] = y[2]

=============================================================================
